---- MODULE Spec2Model ----
(***************************************************************************)
(* AFDC_API: one run of Manager.__init__ (src/src/tools/manager.py):       *)
(* SQL() provisions the destination (password test, database, extension,   *)
(* tables, read-only users, truncate), API() fetches the feed,             *)
(* DataExtractor turns it into the station and evse dataframes, and        *)
(* SQL.df_insert_to_database loads them (batch, then per-row fallback).    *)
(* The destination server (PostgreSQL through psycopg2) is the environment.*)
(***************************************************************************)
EXTENDS Integers, Sequences, FiniteSets, TLC

\* ------------------------------------------------------------------ bounds
MaxFeed == 2        \* records in the feed returned by the API
MaxRuns == 2        \* consecutive invocations of main.py on one server
MaxStr == 2         \* characters of a string given to the row serializer

\* ------------------------------------------------------- values and rows
\* A dataframe cell: NaN, a str, or another scalar (number, timestamp).
NaN == [kind |-> "nan", s |-> <<>>]
Str(s) == [kind |-> "str", s |-> s]
Num(s) == [kind |-> "num", s |-> s]

Quote == "'"
NulChar == "NUL"    \* a character the destination refuses in a literal

\* DataExtractor.evse_cols and the columns of the station frame the model keeps
station_cols == <<"id", "station_name">>
evse_cols == <<"id", "station_id", "evse_id">>

\* Records of the feed (json 'fuel_stations' entries): id, station_name and
\* the number of entries of ev_network_ids.posts.
FeedRecords ==
    { [id |-> Str(<<"1">>), station_name |-> Str(<<"o", Quote, "b">>), posts |-> 1],
      [id |-> Str(<<"2">>), station_name |-> NaN,                       posts |-> 1],
      [id |-> Str(<<"1">>), station_name |-> Str(<<"a">>),              posts |-> 0],
      [id |-> Str(<<"2">>), station_name |-> Str(<<NulChar>>),          posts |-> 2] }

RECURSIVE SeqsUpTo(_, _)
SeqsUpTo(S, n) ==
    IF n = 0 THEN { <<>> }
    ELSE LET shorter == SeqsUpTo(S, n - 1)
         IN  shorter \cup { Append(q, x) : q \in { p \in shorter : Len(p) = n - 1 }, x \in S }

Feeds == SeqsUpTo(FeedRecords, MaxFeed)

\* DataExtractor.extract_data / convert_to_dataframes: one station row per
\* record, one evse row per post of the record, in feed order.
StationRow(rec) == [id |-> rec.id, station_name |-> rec.station_name]
EvseRow(rec, k) == [id |-> rec.id, station_id |-> NaN, evse_id |-> Str(<<"e">>)]

RECURSIVE station_df_of(_)
station_df_of(feed) ==
    IF feed = <<>> THEN <<>>
    ELSE <<StationRow(Head(feed))>> \o station_df_of(Tail(feed))

RECURSIVE evse_df_of(_)
evse_df_of(feed) ==
    IF feed = <<>> THEN <<>>
    ELSE [k \in 1..Head(feed).posts |-> EvseRow(Head(feed), k)] \o evse_df_of(Tail(feed))

\* ---------------------------------------------------------- Row Serializer
NULLkw == <<"N", "U", "L", "L">>

\* mutant: only the first quote is removed
RECURSIVE StripQuotes_first(_)
StripQuotes_first(s) ==
    IF s = <<>> THEN <<>>
    ELSE IF Head(s) = Quote THEN Tail(s)
    ELSE <<Head(s)>> \o StripQuotes_first(Tail(s))

\* str.replace("'", "")
RECURSIVE StripQuotes(_)
StripQuotes(s) ==
    IF s = <<>> THEN <<>>
    ELSE IF Head(s) = Quote THEN StripQuotes(Tail(s))
    ELSE <<Head(s)>> \o StripQuotes(Tail(s))

\* mutant: no pd.isna branch, NaN is formatted like any other value
row_literal_no_null(v) ==
    IF v.kind = "str" THEN <<Quote>> \o StripQuotes(v.s) \o <<Quote>>
    ELSE IF v.kind = "nan" THEN <<Quote, "n", "a", "n", Quote>>
    ELSE <<Quote>> \o v.s \o <<Quote>>

\* the literal put in row_dict[col] (sql.py 355-362)
row_literal(v) ==
    IF v.kind = "nan" THEN NULLkw
    ELSE IF v.kind = "str" THEN <<Quote>> \o StripQuotes(v.s) \o <<Quote>>
    ELSE <<Quote>> \o v.s \o <<Quote>>

\* SQL.generate_sql_row_insert: INSERT INTO table (cols) VALUES (literals);
generate_sql_row_insert(table, cols, data_series) ==
    [table |-> table,
     cols |-> cols,
     vals |-> [j \in 1..Len(cols) |-> row_literal(data_series[cols[j]])]]

\* ------------------------------------------------- destination (PostgreSQL)
\* How the server reads one value literal of a statement.
HasChar(s, c) == \E j \in 1..Len(s) : s[j] = c
Interior(lit) == SubSeq(lit, 2, Len(lit) - 1)
ParseLiteral(lit) ==
    IF lit = NULLkw THEN [ok |-> TRUE, null |-> TRUE, s |-> <<>>]
    ELSE IF /\ Len(lit) >= 2
            /\ lit[1] = Quote
            /\ lit[Len(lit)] = Quote
            /\ ~HasChar(Interior(lit), Quote)
            /\ ~HasChar(Interior(lit), NulChar)
         THEN [ok |-> TRUE, null |-> FALSE, s |-> Interior(lit)]
    ELSE [ok |-> FALSE, null |-> FALSE, s |-> <<>>]

StoredNull == [null |-> TRUE, s |-> <<>>]
Stored(p) == [null |-> p.null, s |-> p.s]

ColPos(cols, c) == CHOOSE j \in 1..Len(cols) : cols[j] = c
StmtVal(stmt, c) == ParseLiteral(stmt.vals[ColPos(stmt.cols, c)])

\* the row a statement would store
StmtRow(stmt) ==
    [c \in { stmt.cols[j] : j \in 1..Len(stmt.cols) } |-> Stored(StmtVal(stmt, c))]

Ids(rows) == { rows[j]["id"] : j \in 1..Len(rows) }

\* mutant: the evse table is declared without its foreign key
Accepts_no_foreign_key(stmt, tabs, data) ==
    /\ stmt.table \in tabs
    /\ \A j \in 1..Len(stmt.vals) : ParseLiteral(stmt.vals[j]).ok
    /\ ~StmtVal(stmt, "id").null
    /\ stmt.table = "station" => Stored(StmtVal(stmt, "id")) \notin Ids(data.station)

\* db_structure.py: station.id NOT NULL PRIMARY KEY; evse.id NOT NULL,
\* FOREIGN KEY (id) REFERENCES station (id).
Accepts(stmt, tabs, data) ==
    /\ stmt.table \in tabs
    /\ \A j \in 1..Len(stmt.vals) : ParseLiteral(stmt.vals[j]).ok
    /\ ~StmtVal(stmt, "id").null
    /\ stmt.table = "station" => Stored(StmtVal(stmt, "id")) \notin Ids(data.station)
    /\ stmt.table = "evse" => Stored(StmtVal(stmt, "id")) \in Ids(data.station)

Apply(stmt, data) ==
    [data EXCEPT ![stmt.table] = Append(@, StmtRow(stmt))]

\* A multi-statement query is one implicit transaction: all or nothing.
RECURSIVE RunBatch(_, _, _)
RunBatch(cmds, tabs, data) ==
    IF cmds = <<>> THEN [ok |-> TRUE, data |-> data]
    ELSE IF Accepts(Head(cmds), tabs, data)
         THEN RunBatch(Tail(cmds), tabs, Apply(Head(cmds), data))
    ELSE [ok |-> FALSE, data |-> data]

EmptyData == [station |-> <<>>, evse |-> <<>>]

Range(q) == { q[j] : j \in 1..Len(q) }

\* ------------------------------------------------------ static configuration
\* os.environ['NAMESPACE'] = 'AFDC_API' (main.py 10)
NAMESPACE == <<"A", "F", "D", "C", "_", "A", "P", "I">>
Uppers == <<"A", "C", "D", "F", "I", "P">>
Lowers == <<"a", "c", "d", "f", "i", "p">>
\* str.lower() and str.upper()
lower(s) == [j \in 1..Len(s) |->
               IF \E k \in 1..Len(Uppers) : Uppers[k] = s[j]
               THEN Lowers[CHOOSE k \in 1..Len(Uppers) : Uppers[k] = s[j]] ELSE s[j]]
upper(s) == [j \in 1..Len(s) |->
               IF \E k \in 1..Len(Lowers) : Lowers[k] = s[j]
               THEN Uppers[CHOOSE k \in 1..Len(Lowers) : Lowers[k] = s[j]] ELSE s[j]]
\* self.database = self.DATABASE_NAME.lower() (sql.py 19-21)
database == lower(NAMESPACE)
\* the destination folds an identifier written without quotes to lower case
FoldIdentifier(s) == lower(s)
\* mutant: the identifier is sent between double quotes and keeps its case
created_database_name_quoted == upper(database)
\* f"CREATE DATABASE {self.database.upper()};" (sql.py 228): the name the
\* destination records
created_database_name == FoldIdentifier(upper(database))
admin_user == "postgres"
\* db_server.yaml 'users' (load_db_configs)
config_users == <<"postgres", "reader", "analyst">>
\* mutant: the administrative user is not filtered out
users_unfiltered == config_users

\* create_read_only_users: users = [x for x in db_configs.keys() if x != 'postgres']
users == SelectSeq(config_users, LAMBDA u : u # "postgres")
\* mutant: the referencing table is defined first
db_structure_evse_first == <<"evse", "station">>

\* DatabaseStructure.db_structure keys, in insertion order
db_structure == <<"station", "evse">>
\* DatabaseStructure.read_only_tables
read_only_tables == <<"station", "evse">>

\* f'{user}_{admin_password}'
derived_password(user, admin_password) == [user |-> user, admin |-> admin_password]
NoPassword == [user |-> "", admin |-> "none"]
UserSet == { users[j] : j \in 1..Len(users) }
\* what a complete pass of create_read_only_users grants
ReadOnlyGrants ==
    UNION { {[role |-> u, priv |-> "CONNECT", on |-> "database"],
             [role |-> u, priv |-> "USAGE", on |-> "public"]}
            \cup {[role |-> u, priv |-> "SELECT", on |-> t] : t \in Range(read_only_tables)}
          : u \in Range(users) }
\* the privileges create_read_only_users asks for one user
PrivilegesOf(u) == { g \in ReadOnlyGrants : g.role = u }

\* --------------------------------------------------------------- the state
VARIABLES
    pc,               \* position of the run in Manager.__init__
    run,              \* number of the current invocation
    raised_at,        \* where the exception that ended the run was raised
    prompts,          \* passwords asked of the operator in this run
    log,              \* statements SQL() sent to the destination in this run
    conns,            \* open psycopg2 connections, innermost last
    keyring,          \* stored postgres_password: "none", "good" or "bad"
    admin_password,   \* db_configs['postgres']['password']
    user_passwords,   \* db_configs[user]['password'] of the read-only users
    api_keyring,      \* stored API key: "none", "good" or "bad"
    api_key,          \* API.api_key
    key_valid,        \* validate_api_key local
    pg_database,      \* destination: the datname column of pg_database
    extension,        \* destination: postgis exists in the target database
    tables,           \* destination: tables of the target database
    roles,            \* destination: role -> password
    grants,           \* destination: privileges granted to roles
    data,             \* destination: committed rows of station and evse
    feed,             \* what the API serves
    station_df,       \* DataExtractor.station_df
    evse_df,          \* DataExtractor.evse_df
    db_exists,        \* create_database local
    ti,               \* position of a loop over tables
    oi,               \* create_read_only_users: outer loop position
    ii,               \* create_read_only_users: inner loop position
    user_exists,      \* create_read_only_users local
    ru_admin_password,\* create_read_only_users local admin_password
    table_name,       \* df_insert_to_database argument
    dataframe,        \* df_insert_to_database argument
    sql_commands,     \* df_insert_to_database local
    retry_insert,     \* df_insert_to_database local
    failures,         \* df_insert_to_database local: rows (by position) that failed
    i,                \* df_insert_to_database: fallback loop position
    returned,         \* table -> whether its load returned, and the failure set
    hist,             \* what the current df_insert_to_database call did so far
    prev,             \* how the previous invocation ended and what it left
    postgres_password,\* the password the server accepts for the administrator
    upd_args          \* legacy generate_sql_row_update: update_dict and the flags

\* check_db = self.database; (check_db,) in list_databases (sql.py 219-221);
\* also what a connection with dbname=self.database needs
database_exists == database \in pg_database

srv_vars == <<pg_database, extension, tables, roles, grants, data>>
cfg_vars == <<keyring, admin_password, user_passwords>>
api_vars == <<api_keyring, api_key, key_valid>>
df_vars == <<station_df, evse_df>>
prov_vars == <<db_exists, ti, oi, ii, user_exists, ru_admin_password>>
load_vars == <<table_name, dataframe, sql_commands, retry_insert, failures, i, returned, hist>>
vars == <<pc, run, raised_at, prompts, log, conns, keyring, admin_password, user_passwords,
          api_keyring, api_key, key_valid,
          pg_database, extension, tables, roles, grants, data, feed,
          station_df, evse_df, db_exists, ti, oi, ii, user_exists, ru_admin_password,
          table_name, dataframe, sql_commands, retry_insert, failures, i, returned, hist,
          prev, postgres_password, upd_args>>

NotReturned == [done |-> FALSE, failures |-> <<>>, failed_ix |-> <<>>]
NoHist == [batch_execs |-> 0,            \* executions of the batched query
           row_execs |-> <<>>,           \* per row: individual executions
           connects |-> 0,               \* connection attempts
           batch_connect_error |-> FALSE,\* the batch's connection attempt failed
           batch_ok |-> FALSE,           \* the batched query succeeded
           inserted_ix |-> {},           \* positions executed individually with success
           rollbacks |-> 0,              \* conn.rollback() calls
           failed_ix |-> <<>>,           \* positions of the rows in failures
           data_at_call |-> EmptyData]   \* destination rows when the call began

\* no previous invocation
NoPrev == [done |-> FALSE, data |-> EmptyData, station_df |-> <<>>, evse_df |-> <<>>,
           returned |-> [t \in {"station", "evse"} |-> NotReturned], incomplete |-> {}]

\* no call of the legacy update serializer
NoUpdArgs == [update_dict |-> {}, update_dict_at_call |-> {}, add_created_dt |-> FALSE,
              add_updated_dt |-> FALSE, add_delivered |-> FALSE, delivered_status |-> FALSE]

\* ------------------------------------------------------ DatabaseConnection
\* psycopg2.connect succeeds when the server is reachable, the password is the
\* server's and, for a database-level connection, the database exists.
CanConnect(target) ==
    /\ admin_password = postgres_password
    /\ target = "db" => database_exists

\* DatabaseConnection.__enter__ (a new connection is not in autocommit mode)
db_enter(cs, target) ==
    Append(cs, [target |-> target, autocommit |-> FALSE, intx |-> FALSE, view |-> EmptyData])

\* mutant: __exit__ that leaves the connection open
db_exit_leak(cs) == cs

\* DatabaseConnection.__exit__: conn.close() discards uncommitted work
db_exit(cs) == SubSeq(cs, 1, Len(cs) - 1)

\* An exception leaving n nested with-blocks runs __exit__ of each.
RECURSIVE Unwind(_, _)
Unwind(cs, n) == IF n = 0 \/ cs = <<>> THEN cs ELSE Unwind(db_exit(cs), n - 1)

Top(cs) == cs[Len(cs)]
SetTop(cs, c) == [cs EXCEPT ![Len(cs)] = c]

\* An uncaught exception: every enclosing with-block exits, the run ends.
Raise(depth) ==
    /\ pc' = "aborted"
    /\ raised_at' = pc
    /\ conns' = Unwind(conns, depth)

Init ==
    /\ pc = "validate"
    /\ run = 1
    /\ raised_at = "none"
    /\ prompts = 0
    /\ log = <<>>
    /\ conns = <<>>
    /\ keyring \in {"none", "good", "bad"}
    /\ api_keyring \in {"none", "good", "bad"}
    /\ api_key = "none"
    /\ key_valid = FALSE
    /\ admin_password = "none"
    /\ user_passwords = [u \in UserSet |-> NoPassword]
    /\ pg_database = {}
    /\ extension = FALSE
    /\ tables = {}
    /\ roles = [u \in UserSet |-> NoPassword]
    /\ grants = {}
    /\ data = EmptyData
    /\ feed \in Feeds
    /\ station_df = <<>>
    /\ evse_df = <<>>
    /\ db_exists = FALSE
    /\ ti = 1
    /\ oi = 1
    /\ ii = 1
    /\ user_exists = FALSE
    /\ ru_admin_password = "none"
    /\ table_name = "station"
    /\ dataframe = <<>>
    /\ sql_commands = <<>>
    /\ retry_insert = FALSE
    /\ failures = <<>>
    /\ i = 1
    /\ returned = [t \in {"station", "evse"} |-> NotReturned]
    /\ hist = NoHist
    /\ prev = NoPrev
    /\ postgres_password = "good"
    /\ upd_args = NoUpdArgs

\* --------------------------------- SQL._validate_db_user_passwords (131-152)
\* credential = keyring.get_credential(...); if credential: password = it
ValidateGetCredential ==
    /\ pc = "validate"
    /\ IF keyring # "none"
       THEN /\ admin_password' = keyring
            /\ pc' = "test_stored"
       ELSE /\ admin_password' = admin_password
            /\ pc' = "prompt"
    /\ UNCHANGED <<run, prompts, log, raised_at, conns, keyring, user_passwords, feed>>
    /\ UNCHANGED <<srv_vars, df_vars, prov_vars, load_vars>>
    /\ UNCHANGED <<api_vars, prev, postgres_password, upd_args>>

\* test_db_password with the stored credential: __enter__ connects or raises
TestStoredOpen ==
    /\ pc = "test_stored"
    /\ \E up \in BOOLEAN :
         IF up /\ CanConnect("server")
         THEN /\ conns' = db_enter(conns, "server")
              /\ pc' = "test_stored_close"
              /\ UNCHANGED raised_at
         ELSE Raise(0)
    /\ UNCHANGED <<run, prompts, log, feed>>
    /\ UNCHANGED <<cfg_vars, srv_vars, df_vars, prov_vars, load_vars>>
    /\ UNCHANGED <<api_vars, prev, postgres_password, upd_args>>

\* conn_test = True; __exit__; key_valid, nothing is written to the keyring
TestStoredClose ==
    /\ pc = "test_stored_close"
    /\ conns' = db_exit(conns)
    /\ pc' = "cdb_open"
    /\ UNCHANGED <<run, prompts, log, raised_at, feed>>
    /\ UNCHANGED <<cfg_vars, srv_vars, df_vars, prov_vars, load_vars>>
    /\ UNCHANGED <<api_vars, prev, postgres_password, upd_args>>

\* no stored credential: password_input = input(...)
Prompt ==
    /\ pc = "prompt"
    /\ \E pw \in {"good", "bad"} : admin_password' = pw
    /\ prompts' = prompts + 1
    /\ pc' = "test_input"
    /\ UNCHANGED <<run, log, raised_at, conns, keyring, user_passwords, feed>>
    /\ UNCHANGED <<srv_vars, df_vars, prov_vars, load_vars>>
    /\ UNCHANGED <<api_vars, prev, postgres_password, upd_args>>

TestInputOpen ==
    /\ pc = "test_input"
    /\ \E up \in BOOLEAN :
         IF up /\ CanConnect("server")
         THEN /\ conns' = db_enter(conns, "server")
              /\ pc' = "test_input_close"
              /\ UNCHANGED raised_at
         ELSE Raise(0)
    /\ UNCHANGED <<run, prompts, log, feed>>
    /\ UNCHANGED <<cfg_vars, srv_vars, df_vars, prov_vars, load_vars>>
    /\ UNCHANGED <<api_vars, prev, postgres_password, upd_args>>

\* key_valid: keyring.set_password(NAMESPACE, password_key, password)
TestInputClose ==
    /\ pc = "test_input_close"
    /\ conns' = db_exit(conns)
    /\ keyring' = admin_password
    /\ pc' = "cdb_open"
    /\ UNCHANGED <<run, prompts, log, raised_at, admin_password, user_passwords, feed>>
    /\ UNCHANGED <<srv_vars, df_vars, prov_vars, load_vars>>
    /\ UNCHANGED <<api_vars, prev, postgres_password, upd_args>>

\* ------------------------------------------------ SQL.create_database (200-244)
CdbOpen ==
    /\ pc = "cdb_open"
    /\ \E up \in BOOLEAN :
         IF up /\ CanConnect("server")
         THEN /\ conns' = db_enter(conns, "server")
              /\ pc' = "cdb_list"
              /\ UNCHANGED raised_at
         ELSE Raise(0)
    /\ UNCHANGED <<run, prompts, log, feed>>
    /\ UNCHANGED <<cfg_vars, srv_vars, df_vars, prov_vars, load_vars>>
    /\ UNCHANGED <<api_vars, prev, postgres_password, upd_args>>

\* SELECT datname FROM pg_database; (check_db,) in list_databases
CdbList ==
    /\ pc = "cdb_list"
    /\ \E ok \in BOOLEAN :
         IF ok
         THEN /\ db_exists' = database_exists
              /\ pc' = IF database_exists THEN "cdb_close" ELSE "cdb_create"
              /\ conns' = SetTop(conns, [Top(conns) EXCEPT !.autocommit = TRUE])
              /\ UNCHANGED raised_at
         ELSE /\ Raise(1)
              /\ UNCHANGED db_exists
    /\ UNCHANGED <<run, prompts, log, feed, ti, oi, ii, user_exists, ru_admin_password>>
    /\ UNCHANGED <<cfg_vars, srv_vars, df_vars, load_vars>>
    /\ UNCHANGED <<api_vars, prev, postgres_password, upd_args>>

\* CREATE DATABASE <name>;
CdbCreate ==
    /\ pc = "cdb_create"
    /\ \E ok \in BOOLEAN :
         IF ok /\ created_database_name \notin pg_database
         THEN /\ pg_database' = pg_database \cup {created_database_name}
              /\ pc' = "cdb_close"
              /\ UNCHANGED <<raised_at, conns>>
         ELSE /\ Raise(1)
              /\ UNCHANGED pg_database
    /\ log' = Append(log, [op |-> "CREATE DATABASE", arg |-> "", role |-> ""])
    /\ UNCHANGED <<run, prompts, feed, extension, tables, roles, grants, data>>
    /\ UNCHANGED <<cfg_vars, df_vars, prov_vars, load_vars>>
    /\ UNCHANGED <<api_vars, prev, postgres_password, upd_args>>

CdbClose ==
    /\ pc = "cdb_close"
    /\ conns' = db_exit(conns)
    /\ pc' = IF ~db_exists THEN "cdb_ext_open" ELSE "ct_open"
    /\ UNCHANGED <<run, prompts, log, raised_at, feed>>
    /\ UNCHANGED <<cfg_vars, srv_vars, df_vars, prov_vars, load_vars>>
    /\ UNCHANGED <<api_vars, prev, postgres_password, upd_args>>

\* if not db_exists: a database-level connection for the extension
CdbExtOpen ==
    /\ pc = "cdb_ext_open"
    /\ \E up \in BOOLEAN :
         IF up /\ CanConnect("db")
         THEN /\ conns' = db_enter(conns, "db")
              /\ pc' = "cdb_ext"
              /\ UNCHANGED raised_at
         ELSE Raise(0)
    /\ UNCHANGED <<run, prompts, log, feed>>
    /\ UNCHANGED <<cfg_vars, srv_vars, df_vars, prov_vars, load_vars>>
    /\ UNCHANGED <<api_vars, prev, postgres_password, upd_args>>

\* CREATE EXTENSION postgis; (an existing extension is an error)
CdbExt ==
    /\ pc = "cdb_ext"
    /\ \E ok \in BOOLEAN :
         IF ok /\ ~extension
         THEN /\ extension' = TRUE
              /\ pc' = "cdb_ext_close"
              /\ conns' = SetTop(conns, [Top(conns) EXCEPT !.autocommit = TRUE])
              /\ UNCHANGED raised_at
         ELSE /\ Raise(1)
              /\ UNCHANGED extension
    /\ log' = Append(log, [op |-> "CREATE EXTENSION", arg |-> "", role |-> ""])
    /\ UNCHANGED <<run, prompts, feed, pg_database, tables, roles, grants, data>>
    /\ UNCHANGED <<cfg_vars, df_vars, prov_vars, load_vars>>
    /\ UNCHANGED <<api_vars, prev, postgres_password, upd_args>>

CdbExtClose ==
    /\ pc = "cdb_ext_close"
    /\ conns' = db_exit(conns)
    /\ pc' = "ct_open"
    /\ UNCHANGED <<run, prompts, log, raised_at, feed>>
    /\ UNCHANGED <<cfg_vars, srv_vars, df_vars, prov_vars, load_vars>>
    /\ UNCHANGED <<api_vars, prev, postgres_password, upd_args>>

\* -------------------------------------------------- SQL.create_tables (246-282)
\* what the DDL of a table needs: station has a GEOMETRY column (postgis),
\* evse references station (id)
\* and a table that exists already cannot be created again
CanCreateTable(t) ==
    /\ t \notin tables
    /\ t = "station" => extension
    /\ t = "evse" => "station" \in tables

\* mutant: the existence query is skipped, every table is taken as missing
table_exists_unchecked(t) == FALSE

\* SELECT EXISTS(SELECT * FROM information_schema.tables WHERE table_name = ...)
table_exists(t) == t \in tables

CtOpen ==
    /\ pc = "ct_open"
    /\ \E up \in BOOLEAN :
         IF up /\ CanConnect("db")
         THEN /\ conns' = db_enter(conns, "db")
              /\ pc' = "ct_check"
              /\ ti' = 1
              /\ UNCHANGED raised_at
         ELSE /\ Raise(0)
              /\ UNCHANGED ti
    /\ UNCHANGED <<run, prompts, log, feed, db_exists, oi, ii, user_exists, ru_admin_password>>
    /\ UNCHANGED <<cfg_vars, srv_vars, df_vars, load_vars>>
    /\ UNCHANGED <<api_vars, prev, postgres_password, upd_args>>

\* SELECT EXISTS(... information_schema.tables WHERE table_name = table)
CtCheck ==
    /\ pc = "ct_check"
    /\ \E ok \in BOOLEAN :
         IF ok
         THEN /\ conns' = SetTop(conns, [Top(conns) EXCEPT !.autocommit = TRUE])
              /\ IF table_exists(db_structure[ti])
                 THEN /\ ti' = ti + 1
                      /\ pc' = IF ti = Len(db_structure) THEN "ct_close" ELSE "ct_check"
                 ELSE /\ ti' = ti
                      /\ pc' = "ct_create"
              /\ UNCHANGED raised_at
         ELSE /\ Raise(1)
              /\ UNCHANGED ti
    /\ UNCHANGED <<run, prompts, log, feed, db_exists, oi, ii, user_exists, ru_admin_password>>
    /\ UNCHANGED <<cfg_vars, srv_vars, df_vars, load_vars>>
    /\ UNCHANGED <<api_vars, prev, postgres_password, upd_args>>

\* cur.execute(sql_stmt): CREATE TABLE ...
CtCreate ==
    /\ pc = "ct_create"
    /\ \E ok \in BOOLEAN :
         IF ok /\ CanCreateTable(db_structure[ti])
         THEN /\ tables' = tables \cup {db_structure[ti]}
              /\ ti' = ti + 1
              /\ pc' = IF ti = Len(db_structure) THEN "ct_close" ELSE "ct_check"
              /\ UNCHANGED <<raised_at, conns>>
         ELSE /\ Raise(1)
              /\ UNCHANGED <<tables, ti>>
    /\ log' = Append(log, [op |-> "CREATE TABLE", arg |-> db_structure[ti], role |-> ""])
    /\ UNCHANGED <<run, prompts, feed, db_exists, oi, ii, user_exists, ru_admin_password>>
    /\ UNCHANGED <<pg_database, extension, roles, grants, data>>
    /\ UNCHANGED <<cfg_vars, df_vars, load_vars>>
    /\ UNCHANGED <<api_vars, prev, postgres_password, upd_args>>

CtClose ==
    /\ pc = "ct_close"
    /\ conns' = db_exit(conns)
    /\ pc' = "ru_start"
    /\ UNCHANGED <<run, prompts, log, raised_at, feed>>
    /\ UNCHANGED <<cfg_vars, srv_vars, df_vars, prov_vars, load_vars>>
    /\ UNCHANGED <<api_vars, prev, postgres_password, upd_args>>

\* ----------------------------------------- SQL.create_read_only_users (51-129)
\* The user the loop body works on: the inner loop variable shadows the outer.
user == users[ii]
\* positions inside create_read_only_users
RuPcs ==
    {"ru_start", "ru_open1", "ru_exists", "ru_create", "ru_connect", "ru_open2", "ru_usage",
     "ru_select", "ru_close2", "ru_close1", "ru_record"}

\* admin_password = keyring.get_password(...); users = [...]; both loops start
RuStart ==
    /\ pc = "ru_start"
    /\ ru_admin_password' = keyring
    /\ oi' = 1
    /\ ii' = 1
    /\ pc' = IF Len(users) = 0 THEN "tr_open" ELSE "ru_open1"
    /\ UNCHANGED <<run, prompts, log, raised_at, conns, feed, db_exists, ti, user_exists>>
    /\ UNCHANGED <<cfg_vars, srv_vars, df_vars, load_vars>>
    /\ UNCHANGED <<api_vars, prev, postgres_password, upd_args>>

\* with DatabaseConnection(..., database=None, ...) as conn  (60-64)
RuOpen1 ==
    /\ pc = "ru_open1"
    /\ \E up \in BOOLEAN :
         IF up /\ CanConnect("server")
         THEN /\ conns' = db_enter(conns, "server")
              /\ pc' = "ru_exists"
              /\ UNCHANGED raised_at
         ELSE Raise(0)
    /\ UNCHANGED <<run, prompts, log, feed>>
    /\ UNCHANGED <<cfg_vars, srv_vars, df_vars, prov_vars, load_vars>>
    /\ UNCHANGED <<api_vars, prev, postgres_password, upd_args>>

\* mutant: the pg_roles lookup is skipped, every role is taken as missing
role_exists_unchecked(u) == FALSE

\* the answer of SELECT EXISTS(SELECT 1 FROM pg_roles WHERE rolname = u)
role_exists(u) == roles[u] # NoPassword

\* SELECT EXISTS(SELECT 1 FROM pg_roles WHERE rolname = user)  (71-78)
RuExists ==
    /\ pc = "ru_exists"
    /\ \E ok \in BOOLEAN :
         IF ok
         THEN /\ user_exists' = role_exists(user)
              /\ conns' = SetTop(conns, [Top(conns) EXCEPT !.autocommit = TRUE])
              /\ pc' = "ru_create"
              /\ UNCHANGED raised_at
         ELSE /\ Raise(1)
              /\ UNCHANGED user_exists
    /\ log' = Append(log, [op |-> "SELECT ROLE", arg |-> "", role |-> user])
    /\ UNCHANGED <<run, prompts, feed, db_exists, ti, oi, ii, ru_admin_password>>
    /\ UNCHANGED <<cfg_vars, srv_vars, df_vars, load_vars>>
    /\ UNCHANGED <<api_vars, prev, postgres_password, upd_args>>

\* if not user_exists: stmt = CREATE USER ...; cur.execute(stmt)  (80-85)
\* (with an existing role the statement executed again is the SELECT)
RuCreate ==
    /\ pc = "ru_create"
    /\ \E ok \in BOOLEAN :
         IF ok /\ (user_exists \/ roles[user] = NoPassword)
         THEN /\ roles' = IF user_exists THEN roles
                          ELSE [roles EXCEPT ![user] = derived_password(user, ru_admin_password)]
              /\ pc' = "ru_connect"
              /\ UNCHANGED <<raised_at, conns>>
         ELSE /\ Raise(1)
              /\ UNCHANGED roles
    /\ log' = Append(log, IF user_exists THEN [op |-> "SELECT ROLE", arg |-> "", role |-> user]
                            ELSE [op |-> "CREATE USER", arg |-> "", role |-> user])
    /\ UNCHANGED <<run, prompts, feed, pg_database, extension, tables, grants, data>>
    /\ UNCHANGED <<cfg_vars, df_vars, prov_vars, load_vars>>
    /\ UNCHANGED <<api_vars, prev, postgres_password, upd_args>>

\* mutant: a role that already holds a privilege is given no further one
Granted_first_only(g, u, priv, on) ==
    IF \E x \in g : x.role = u THEN g ELSE g \cup {[role |-> u, priv |-> priv, on |-> on]}

\* the destination's privileges after GRANT priv ON on TO u: the privilege is
\* added, for a new role and for one that exists, and granting it again is
\* no error
Granted(g, u, priv, on) == g \cup {[role |-> u, priv |-> priv, on |-> on]}

\* GRANT CONNECT ON DATABASE database TO user  (90-93)
RuGrantConnect ==
    /\ pc = "ru_connect"
    /\ \E ok \in BOOLEAN :
         IF ok /\ database_exists /\ roles[user] # NoPassword
         THEN /\ grants' = Granted(grants, user, "CONNECT", "database")
              /\ pc' = "ru_open2"
              /\ UNCHANGED <<raised_at, conns>>
         ELSE /\ Raise(1)
              /\ UNCHANGED grants
    /\ log' = Append(log, [op |-> "GRANT CONNECT", arg |-> "database", role |-> user])
    /\ UNCHANGED <<run, prompts, feed, pg_database, extension, tables, roles, data>>
    /\ UNCHANGED <<cfg_vars, df_vars, prov_vars, load_vars>>
    /\ UNCHANGED <<api_vars, prev, postgres_password, upd_args>>

\* cur.close(); with DatabaseConnection(..., database=self.database, ...) as conn
\* (96-103): this with-statement is inside the body of the first one.
RuOpen2 ==
    /\ pc = "ru_open2"
    /\ \E up \in BOOLEAN :
         IF up /\ CanConnect("db")
         THEN /\ conns' = db_enter(conns, "db")
              /\ pc' = "ru_usage"
              /\ UNCHANGED raised_at
         ELSE Raise(1)
    /\ UNCHANGED <<run, prompts, log, feed>>
    /\ UNCHANGED <<cfg_vars, srv_vars, df_vars, prov_vars, load_vars>>
    /\ UNCHANGED <<api_vars, prev, postgres_password, upd_args>>

\* GRANT USAGE ON SCHEMA public TO user  (111-114)
RuGrantUsage ==
    /\ pc = "ru_usage"
    /\ \E ok \in BOOLEAN :
         IF ok /\ roles[user] # NoPassword
         THEN /\ grants' = Granted(grants, user, "USAGE", "public")
              /\ conns' = SetTop(conns, [Top(conns) EXCEPT !.autocommit = TRUE])
              /\ ti' = 1
              /\ pc' = IF Len(read_only_tables) = 0 THEN "ru_close2" ELSE "ru_select"
              /\ UNCHANGED raised_at
         ELSE /\ Raise(2)
              /\ UNCHANGED <<grants, ti>>
    /\ log' = Append(log, [op |-> "GRANT USAGE", arg |-> "public", role |-> user])
    /\ UNCHANGED <<run, prompts, feed, pg_database, extension, tables, roles, data>>
    /\ UNCHANGED <<db_exists, oi, ii, user_exists, ru_admin_password>>
    /\ UNCHANGED <<cfg_vars, df_vars, load_vars>>
    /\ UNCHANGED <<api_vars, prev, postgres_password, upd_args>>

\* for table in read_only_tables: GRANT SELECT ON table TO user  (118-123)
RuGrantSelect ==
    /\ pc = "ru_select"
    /\ \E ok \in BOOLEAN :
         IF ok /\ read_only_tables[ti] \in tables /\ roles[user] # NoPassword
         THEN /\ grants' = Granted(grants, user, "SELECT", read_only_tables[ti])
              /\ ti' = ti + 1
              /\ pc' = IF ti = Len(read_only_tables) THEN "ru_close2" ELSE "ru_select"
              /\ UNCHANGED <<raised_at, conns>>
         ELSE /\ Raise(2)
              /\ UNCHANGED <<grants, ti>>
    /\ log' = Append(log, [op |-> "GRANT SELECT", arg |-> read_only_tables[ti], role |-> user])
    /\ UNCHANGED <<run, prompts, feed, pg_database, extension, tables, roles, data>>
    /\ UNCHANGED <<db_exists, oi, ii, user_exists, ru_admin_password>>
    /\ UNCHANGED <<cfg_vars, df_vars, load_vars>>
    /\ UNCHANGED <<api_vars, prev, postgres_password, upd_args>>

\* cur.close(); the inner with-block exits  (126)
RuClose2 ==
    /\ pc = "ru_close2"
    /\ conns' = db_exit(conns)
    /\ pc' = "ru_close1"
    /\ UNCHANGED <<run, prompts, log, raised_at, feed>>
    /\ UNCHANGED <<cfg_vars, srv_vars, df_vars, prov_vars, load_vars>>
    /\ UNCHANGED <<api_vars, prev, postgres_password, upd_args>>

\* the outer with-block exits
RuClose1 ==
    /\ pc = "ru_close1"
    /\ conns' = db_exit(conns)
    /\ pc' = "ru_record"
    /\ UNCHANGED <<run, prompts, log, raised_at, feed>>
    /\ UNCHANGED <<cfg_vars, srv_vars, df_vars, prov_vars, load_vars>>
    /\ UNCHANGED <<api_vars, prev, postgres_password, upd_args>>

\* self.db_configs[user]['password'] = f'{user}_{admin_password}'  (129),
\* then the next iteration of the inner loop, or of the outer one
RuRecord ==
    /\ pc = "ru_record"
    /\ user_passwords' = [user_passwords EXCEPT ![user] = derived_password(user, ru_admin_password)]
    /\ IF ii < Len(users)
       THEN /\ ii' = ii + 1
            /\ oi' = oi
            /\ pc' = "ru_open1"
       ELSE /\ ii' = 1
            /\ oi' = oi + 1
            /\ pc' = IF oi < Len(users) THEN "ru_open1" ELSE "tr_open"
    /\ UNCHANGED <<run, prompts, log, raised_at, conns, feed, keyring, admin_password>>
    /\ UNCHANGED <<db_exists, ti, user_exists, ru_admin_password>>
    /\ UNCHANGED <<srv_vars, df_vars, load_vars>>
    /\ UNCHANGED <<api_vars, prev, postgres_password, upd_args>>

\* ---------------------------------------------------- SQL.truncate_db (383-413)
TrOpen ==
    /\ pc = "tr_open"
    /\ \E up \in BOOLEAN :
         IF up /\ CanConnect("db")
         THEN /\ conns' = db_enter(conns, "db")
              /\ pc' = "tr_check"
              /\ ti' = 1
              /\ UNCHANGED raised_at
         ELSE /\ Raise(0)
              /\ UNCHANGED ti
    /\ UNCHANGED <<run, prompts, log, feed, db_exists, oi, ii, user_exists, ru_admin_password>>
    /\ UNCHANGED <<cfg_vars, srv_vars, df_vars, load_vars>>
    /\ UNCHANGED <<api_vars, prev, postgres_password, upd_args>>

\* mutant: the existence query is skipped, every table is taken as present
truncate_table_exists_unchecked(t) == TRUE

\* table_exists = cur.fetchone()[0] of truncate_db (401-410)
truncate_table_exists(t) == t \in tables

\* SELECT EXISTS(... information_schema.tables WHERE table_name = table)
TrCheck ==
    /\ pc = "tr_check"
    /\ \E ok \in BOOLEAN :
         IF ok
         THEN /\ conns' = SetTop(conns, [Top(conns) EXCEPT !.autocommit = TRUE])
              /\ IF truncate_table_exists(db_structure[ti])
                 THEN /\ ti' = ti
                      /\ pc' = "tr_truncate"
                 ELSE /\ ti' = ti + 1
                      /\ pc' = IF ti = Len(db_structure) THEN "tr_close" ELSE "tr_check"
              /\ UNCHANGED raised_at
         ELSE /\ Raise(1)
              /\ UNCHANGED ti
    /\ UNCHANGED <<run, prompts, log, feed, db_exists, oi, ii, user_exists, ru_admin_password>>
    /\ UNCHANGED <<cfg_vars, srv_vars, df_vars, load_vars>>
    /\ UNCHANGED <<api_vars, prev, postgres_password, upd_args>>

\* mutant: the statement leaves the rows where they are
Truncated_keeps_rows(t, d) == d

\* TRUNCATE TABLE t CASCADE also empties the tables that reference t
Truncated(t, d) ==
    IF t = "station" THEN EmptyData ELSE [d EXCEPT ![t] = <<>>]

TrTruncate ==
    /\ pc = "tr_truncate"
    /\ \E ok \in BOOLEAN :
         IF ok /\ db_structure[ti] \in tables
         THEN /\ data' = Truncated(db_structure[ti], data)
              /\ ti' = ti + 1
              /\ pc' = IF ti = Len(db_structure) THEN "tr_close" ELSE "tr_check"
              /\ UNCHANGED <<raised_at, conns>>
         ELSE /\ Raise(1)
              /\ UNCHANGED <<data, ti>>
    /\ log' = Append(log, [op |-> "TRUNCATE", arg |-> db_structure[ti], role |-> ""])
    /\ UNCHANGED <<run, prompts, feed, db_exists, oi, ii, user_exists, ru_admin_password>>
    /\ UNCHANGED <<pg_database, extension, tables, roles, grants>>
    /\ UNCHANGED <<cfg_vars, df_vars, load_vars>>
    /\ UNCHANGED <<api_vars, prev, postgres_password, upd_args>>

TrClose ==
    /\ pc = "tr_close"
    /\ conns' = db_exit(conns)
    /\ pc' = "api_validate"
    /\ UNCHANGED <<run, prompts, log, raised_at, feed>>
    /\ UNCHANGED <<cfg_vars, srv_vars, df_vars, prov_vars, load_vars>>
    /\ UNCHANGED <<api_vars, prev, postgres_password, upd_args>>

\* ------------------------------------------------ API.validate_api_key (35-57)
\* whether the service accepts a key
KeyAccepted(key) == key = "good"

\* mutant: any response counts as a valid key
test_api_key_any_status(key, served) == TRUE

\* test_api_key (59-64): the test request answers 200 when the service is
\* serving and accepts the key
test_api_key(key, served) == served /\ KeyAccepted(key)

\* credential = keyring.get_credential(...); key_valid = False;
\* if credential: self.api_key = credential.password
ApiGetCredential ==
    /\ pc = "api_validate"
    /\ key_valid' = FALSE
    /\ IF api_keyring # "none"
       THEN /\ api_key' = api_keyring
            /\ pc' = "api_test_stored"
       ELSE /\ api_key' = api_key
            /\ pc' = "api_prompt"
    /\ UNCHANGED <<run, prompts, log, raised_at, conns, feed, api_keyring>>
    /\ UNCHANGED <<cfg_vars, srv_vars, df_vars, prov_vars, load_vars>>
    /\ UNCHANGED <<prev, postgres_password, upd_args>>

\* key_valid = self.test_api_key() with the stored key; valid: break
ApiTestStored ==
    /\ pc = "api_test_stored"
    /\ \E outcome \in {"served", "refused", "raise"} :
         IF outcome = "raise"
         THEN /\ Raise(0)
              /\ UNCHANGED key_valid
         ELSE /\ key_valid' = test_api_key(api_key, outcome = "served")
              /\ pc' = IF key_valid' THEN "api" ELSE "api_prompt"
              /\ UNCHANGED <<raised_at, conns>>
    /\ UNCHANGED <<run, prompts, log, feed, api_keyring, api_key>>
    /\ UNCHANGED <<cfg_vars, srv_vars, df_vars, prov_vars, load_vars>>
    /\ UNCHANGED <<prev, postgres_password, upd_args>>

\* if not key_valid: self.api_key = input('Enter here:')
ApiPrompt ==
    /\ pc = "api_prompt"
    /\ \E key \in {"good", "bad"} : api_key' = key
    /\ pc' = "api_test_input"
    /\ UNCHANGED <<run, prompts, log, raised_at, conns, feed, api_keyring, key_valid>>
    /\ UNCHANGED <<cfg_vars, srv_vars, df_vars, prov_vars, load_vars>>
    /\ UNCHANGED <<prev, postgres_password, upd_args>>

\* key_valid = self.test_api_key() with the key that was typed in
ApiTestInput ==
    /\ pc = "api_test_input"
    /\ \E outcome \in {"served", "refused", "raise"} :
         IF outcome = "raise"
         THEN /\ Raise(0)
              /\ UNCHANGED key_valid
         ELSE /\ key_valid' = test_api_key(api_key, outcome = "served")
              /\ pc' = "api_store"
              /\ UNCHANGED <<raised_at, conns>>
    /\ UNCHANGED <<run, prompts, log, feed, api_keyring, api_key>>
    /\ UNCHANGED <<cfg_vars, srv_vars, df_vars, prov_vars, load_vars>>
    /\ UNCHANGED <<prev, postgres_password, upd_args>>

\* if key_valid: keyring.set_password(..., password=self.api_key); break
\* else: the while loop starts over
ApiStore ==
    /\ pc = "api_store"
    /\ IF key_valid
       THEN /\ api_keyring' = api_key
            /\ pc' = "api"
       ELSE /\ api_keyring' = api_keyring
            /\ pc' = "api_validate"
    /\ UNCHANGED <<run, prompts, log, raised_at, conns, feed, api_key, key_valid>>
    /\ UNCHANGED <<cfg_vars, srv_vars, df_vars, prov_vars, load_vars>>
    /\ UNCHANGED <<prev, postgres_password, upd_args>>

\* ------------------------------------------- API() and DataExtractor(json_dict)
\* perform_api_request fills json_dict with the feed, or leaves it empty when
\* the status code is bad; a requests exception ends the run.
Api ==
    /\ pc = "api"
    /\ \E outcome \in {"feed", "empty", "raise"} :
         IF outcome = "raise"
         THEN /\ Raise(0)
              /\ UNCHANGED <<df_vars, table_name, dataframe>>
         ELSE LET json_dict == IF outcome = "feed" THEN feed ELSE <<>>
              IN  /\ station_df' = station_df_of(json_dict)
                  /\ evse_df' = evse_df_of(json_dict)
                  \* Manager.insert_station_data_into_db
                  /\ table_name' = "station"
                  /\ dataframe' = station_df_of(json_dict)
                  /\ pc' = "ld_gen"
                  /\ UNCHANGED <<raised_at, conns>>
    /\ UNCHANGED <<run, prompts, log, feed, sql_commands, retry_insert, failures, i, returned, hist>>
    /\ UNCHANGED <<cfg_vars, srv_vars, prov_vars>>
    /\ UNCHANGED <<api_vars, prev, postgres_password, upd_args>>

\* ------------------------------------------ SQL.df_insert_to_database (284-335)
\* mutant: the first row of the dataframe is recorded instead of row i
failures_append_first(f, df, j) == Append(f, df[1])

\* failures = failures.append(dataframe.iloc[i]) (328)
failures_append(f, df, j) == Append(f, df[j])

cols_of(t) == IF t = "station" THEN station_cols ELSE evse_cols

\* retry_insert = False; failures = DataFrame(); one statement per row (285-297)
LdGenerate ==
    /\ pc = "ld_gen"
    /\ retry_insert' = FALSE
    /\ failures' = <<>>
    /\ sql_commands' = [j \in 1..Len(dataframe) |->
                          generate_sql_row_insert(table_name, cols_of(table_name), dataframe[j])]
    /\ hist' = [NoHist EXCEPT !.row_execs = [j \in 1..Len(dataframe) |-> 0],
                              !.data_at_call = data]
    /\ i' = 1
    \* if sql_commands: (300)
    /\ pc' = IF Len(dataframe) = 0 THEN "ld_return" ELSE "ld_batch_open"
    /\ UNCHANGED <<run, prompts, log, raised_at, conns, feed, table_name, dataframe, returned>>
    /\ UNCHANGED <<cfg_vars, srv_vars, df_vars, prov_vars>>
    /\ UNCHANGED <<api_vars, prev, postgres_password, upd_args>>

\* except: retry_insert = True (303-304): any exception of the batch attempt
\* is caught and the call goes on to the individual executions
batch_except == "ld_fb_open"

\* execute_batch_sql_commands: the with-statement connects (372-376); an
\* exception here is caught by the bare except of line 303.
LdBatchOpen ==
    /\ pc = "ld_batch_open"
    /\ \E up \in BOOLEAN :
         IF up /\ CanConnect("db")
         THEN /\ conns' = db_enter(conns, "db")
              /\ pc' = "ld_batch_exec"
              /\ hist' = [hist EXCEPT !.connects = @ + 1]
              /\ UNCHANGED retry_insert
         ELSE /\ retry_insert' = TRUE
              /\ pc' = batch_except
              /\ hist' = [hist EXCEPT !.connects = @ + 1, !.batch_connect_error = TRUE]
              /\ UNCHANGED conns
    /\ UNCHANGED <<run, prompts, log, raised_at, feed, table_name, dataframe, sql_commands, failures, i, returned>>
    /\ UNCHANGED <<cfg_vars, srv_vars, df_vars, prov_vars>>
    /\ UNCHANGED <<api_vars, prev, postgres_password, upd_args>>

\* mutant: the batch connection is left in its default transaction mode
batch_autocommit_off(conn) == [conn EXCEPT !.autocommit = FALSE]

\* conn.autocommit = True (377)
batch_autocommit(conn) == [conn EXCEPT !.autocommit = TRUE]

\* cur.execute(batch_query) (379): all statements or none; an error leaves the
\* with-block (the connection closes) and is caught at line 303.
LdBatchExec ==
    /\ pc = "ld_batch_exec"
    /\ LET res == RunBatch(sql_commands, tables, data)
       IN  IF res.ok
           THEN /\ IF batch_autocommit(Top(conns)).autocommit
                   THEN /\ data' = res.data
                        /\ conns' = SetTop(conns, batch_autocommit(Top(conns)))
                   ELSE /\ data' = data
                        /\ conns' = SetTop(conns, [Top(conns) EXCEPT !.intx = TRUE, !.view = res.data])
                /\ pc' = "ld_batch_close"
                /\ hist' = [hist EXCEPT !.batch_execs = @ + 1, !.batch_ok = TRUE]
                /\ UNCHANGED retry_insert
           ELSE /\ data' = data
                /\ conns' = Unwind(conns, 1)
                /\ retry_insert' = TRUE
                /\ pc' = batch_except
                /\ hist' = [hist EXCEPT !.batch_execs = @ + 1]
    /\ UNCHANGED <<run, prompts, log, raised_at, feed, table_name, dataframe, sql_commands, failures, i, returned>>
    /\ UNCHANGED <<pg_database, extension, tables, roles, grants>>
    /\ UNCHANGED <<cfg_vars, df_vars, prov_vars>>
    /\ UNCHANGED <<api_vars, prev, postgres_password, upd_args>>

\* cur.close(); the with-block of execute_batch_sql_commands exits (381)
LdBatchClose ==
    /\ pc = "ld_batch_close"
    /\ conns' = db_exit(conns)
    /\ pc' = IF retry_insert THEN "ld_fb_open" ELSE "ld_return"
    /\ UNCHANGED <<run, prompts, log, raised_at, feed>>
    /\ UNCHANGED <<cfg_vars, srv_vars, df_vars, prov_vars, load_vars>>
    /\ UNCHANGED <<api_vars, prev, postgres_password, upd_args>>

\* if retry_insert: with DatabaseConnection(...) as conn (307-315); an
\* exception here is not caught
LdFbOpen ==
    /\ pc = "ld_fb_open"
    /\ \E up \in BOOLEAN :
         IF up /\ CanConnect("db")
         THEN /\ conns' = db_enter(conns, "db")
              /\ pc' = "ld_fb_row"
              /\ i' = 1
              /\ UNCHANGED raised_at
         ELSE /\ Raise(0)
              /\ UNCHANGED i
    /\ hist' = [hist EXCEPT !.connects = @ + 1]
    /\ UNCHANGED <<run, prompts, log, feed, table_name, dataframe, sql_commands, retry_insert, failures, returned>>
    /\ UNCHANGED <<cfg_vars, srv_vars, df_vars, prov_vars>>
    /\ UNCHANGED <<api_vars, prev, postgres_password, upd_args>>

\* mutant: the fallback connection is left in its default transaction mode
fallback_autocommit_off(conn) == [conn EXCEPT !.autocommit = FALSE]

\* conn.autocommit = True (321)
fallback_autocommit(conn) == [conn EXCEPT !.autocommit = TRUE]

\* what a statement on this connection sees
View(conn) == IF conn.intx THEN conn.view ELSE data

\* mutant: the loop stops one command early
AfterRow_stops_early(k) == IF k >= Len(sql_commands) - 1 THEN "ld_fb_close" ELSE "ld_fb_row"

\* the loop advances to the next command, or the with-block is left
AfterRow(k) == IF k = Len(sql_commands) THEN "ld_fb_close" ELSE "ld_fb_row"

\* mutant: the first failing row ends the loop
row_except_break == "ld_fb_close"
\* mutant: the exception of a failing row is not caught
row_except_raise == "aborted"

\* except: (327): an exception of the individual execution is caught, the row
\* is recorded and the rollback follows
row_except == "ld_fb_rollback"

\* one iteration: cur.execute(sql_command) (321-326, 332-333); a failure
\* enters the except clause: failures.append(dataframe.iloc[i]) (328)
LdFbRow ==
    /\ pc = "ld_fb_row"
    /\ LET conn == fallback_autocommit(Top(conns))
           stmt == sql_commands[i]
       IN  IF Accepts(stmt, tables, View(conn))
           THEN /\ IF conn.autocommit
                   THEN /\ data' = Apply(stmt, data)
                        /\ conns' = SetTop(conns, conn)
                   ELSE /\ data' = data
                        /\ conns' = SetTop(conns, [conn EXCEPT !.intx = TRUE,
                                                               !.view = Apply(stmt, View(conn))])
                /\ failures' = failures
                /\ hist' = [hist EXCEPT !.row_execs[i] = @ + 1,
                                        !.inserted_ix = @ \cup {i}]
                /\ i' = i + 1
                /\ pc' = AfterRow(i)
           ELSE /\ data' = data
                /\ conns' = SetTop(conns, conn)
                /\ failures' = failures_append(failures, dataframe, i)
                /\ hist' = [hist EXCEPT !.row_execs[i] = @ + 1,
                                        !.failed_ix = Append(@, i)]
                /\ i' = i
                /\ pc' = row_except
    /\ UNCHANGED <<run, prompts, log, raised_at, feed, table_name, dataframe, sql_commands, retry_insert, returned>>
    /\ UNCHANGED <<pg_database, extension, tables, roles, grants>>
    /\ UNCHANGED <<cfg_vars, df_vars, prov_vars>>
    /\ UNCHANGED <<api_vars, prev, postgres_password, upd_args>>

\* conn.rollback() (329): uncommitted work of the connection is discarded;
\* finally: cur.close() (333); next iteration
LdFbRollback ==
    /\ pc = "ld_fb_rollback"
    /\ conns' = SetTop(conns, [Top(conns) EXCEPT !.intx = FALSE, !.view = EmptyData])
    /\ hist' = [hist EXCEPT !.rollbacks = @ + 1]
    /\ i' = i + 1
    /\ pc' = AfterRow(i)
    /\ UNCHANGED <<run, prompts, log, raised_at, feed, table_name, dataframe, sql_commands, retry_insert,
                   failures, returned>>
    /\ UNCHANGED <<cfg_vars, srv_vars, df_vars, prov_vars>>
    /\ UNCHANGED <<api_vars, prev, postgres_password, upd_args>>

\* the with-block of the fallback exits
LdFbClose ==
    /\ pc = "ld_fb_close"
    /\ conns' = db_exit(conns)
    /\ pc' = "ld_return"
    /\ UNCHANGED <<run, prompts, log, raised_at, feed>>
    /\ UNCHANGED <<cfg_vars, srv_vars, df_vars, prov_vars, load_vars>>
    /\ UNCHANGED <<api_vars, prev, postgres_password, upd_args>>

\* return failures (335); Manager goes on with insert_evse_data_into_db, or ends
LdReturn ==
    /\ pc = "ld_return"
    /\ returned' = [returned EXCEPT ![table_name] =
                       [done |-> TRUE, failures |-> failures, failed_ix |-> hist.failed_ix]]
    /\ IF table_name = "station"
       THEN /\ table_name' = "evse"
            /\ dataframe' = evse_df
            /\ pc' = "ld_gen"
       ELSE /\ table_name' = table_name
            /\ dataframe' = dataframe
            /\ pc' = "done"
    /\ UNCHANGED <<run, prompts, log, raised_at, conns, feed, sql_commands, retry_insert, failures, i, hist>>
    /\ UNCHANGED <<cfg_vars, srv_vars, df_vars, prov_vars>>
    /\ UNCHANGED <<api_vars, prev, postgres_password, upd_args>>

\* ------------------------------------------------------- the next invocation
\* main.py is started again: a new process, the same server and feed. Between
\* two invocations the administrator's password may have been changed at the
\* server ("good" and "bad" are two password values, the server starts with
\* "good") and the stored credential may have been removed from the keyring.
NextRun ==
    /\ pc \in {"done", "aborted"}
    /\ run < MaxRuns
    /\ run' = run + 1
    /\ pc' = "validate"
    /\ raised_at' = "none"
    /\ prompts' = 0
    /\ log' = <<>>
    /\ conns' = <<>>
    /\ admin_password' = "none"
    /\ user_passwords' = [u \in UserSet |-> NoPassword]
    /\ station_df' = <<>>
    /\ evse_df' = <<>>
    /\ db_exists' = FALSE
    /\ ti' = 1
    /\ oi' = 1
    /\ ii' = 1
    /\ user_exists' = FALSE
    /\ ru_admin_password' = "none"
    /\ table_name' = "station"
    /\ dataframe' = <<>>
    /\ sql_commands' = <<>>
    /\ retry_insert' = FALSE
    /\ failures' = <<>>
    /\ i' = 1
    /\ returned' = [t \in {"station", "evse"} |-> NotReturned]
    /\ hist' = NoHist
    /\ prev' = [done |-> pc = "done", data |-> data, station_df |-> station_df,
                evse_df |-> evse_df, returned |-> returned,
                \* the users an abort inside create_read_only_users left with
                \* a role and without all of its privileges
                incomplete |-> IF pc = "aborted" /\ raised_at \in RuPcs
                               THEN { u \in UserSet : /\ roles[u] # NoPassword
                                                      /\ ~(PrivilegesOf(u) \subseteq grants) }
                               ELSE {}]
    /\ api_key' = "none"
    /\ key_valid' = FALSE
    /\ \E pw \in {"good", "bad"} : postgres_password' = pw
    /\ \E stored \in {keyring, "none"} : keyring' = stored
    /\ UNCHANGED <<api_keyring, feed, upd_args>>
    /\ UNCHANGED srv_vars

Next ==
    \/ ValidateGetCredential \/ TestStoredOpen \/ TestStoredClose
    \/ Prompt \/ TestInputOpen \/ TestInputClose
    \/ CdbOpen \/ CdbList \/ CdbCreate \/ CdbClose
    \/ CdbExtOpen \/ CdbExt \/ CdbExtClose
    \/ CtOpen \/ CtCheck \/ CtCreate \/ CtClose
    \/ RuStart \/ RuOpen1 \/ RuExists \/ RuCreate \/ RuGrantConnect
    \/ RuOpen2 \/ RuGrantUsage \/ RuGrantSelect \/ RuClose2 \/ RuClose1 \/ RuRecord
    \/ TrOpen \/ TrCheck \/ TrTruncate \/ TrClose
    \/ ApiGetCredential \/ ApiTestStored \/ ApiPrompt \/ ApiTestInput \/ ApiStore
    \/ Api
    \/ LdGenerate \/ LdBatchOpen \/ LdBatchExec \/ LdBatchClose
    \/ LdFbOpen \/ LdFbRow \/ LdFbRollback \/ LdFbClose \/ LdReturn
    \/ NextRun

Spec == Init /\ [][Next]_vars

\* ------------------------------------------------ the row serializer alone
\* generate_sql_row_insert applied to one arbitrary station row, and the
\* statement executed on an empty station table.
SerChars == {"a", Quote, NulChar}
SerValues == {NaN, Num(<<"7">>)} \cup { Str(s) : s \in SeqsUpTo(SerChars, MaxStr) }
SerRows == [id : SerValues, station_name : SerValues]

SerInit ==
    /\ pc = "ser_gen"
    /\ run = 1
    /\ raised_at = "none"
    /\ prompts = 0
    /\ log = <<>>
    /\ conns = <<>>
    /\ keyring = "good"
    /\ admin_password = "good"
    /\ api_keyring = "good"
    /\ api_key = "none"
    /\ key_valid = FALSE
    /\ user_passwords = [u \in UserSet |-> NoPassword]
    /\ pg_database = {database}
    /\ extension = TRUE
    /\ tables = {"station", "evse"}
    /\ roles = [u \in UserSet |-> NoPassword]
    /\ grants = {}
    /\ data = EmptyData
    /\ feed = <<>>
    /\ station_df = <<>>
    /\ evse_df = <<>>
    /\ db_exists = TRUE
    /\ ti = 1
    /\ oi = 1
    /\ ii = 1
    /\ user_exists = FALSE
    /\ ru_admin_password = "none"
    /\ table_name = "station"
    /\ \E row \in SerRows : dataframe = <<row>>
    /\ sql_commands = <<>>
    /\ retry_insert = FALSE
    /\ failures = <<>>
    /\ i = 1
    /\ returned = [t \in {"station", "evse"} |-> NotReturned]
    /\ hist = NoHist
    /\ prev = NoPrev
    /\ postgres_password = "good"
    /\ upd_args = NoUpdArgs

\* sql_commands.append(self.generate_sql_row_insert(table, row))
SerGenerate ==
    /\ pc = "ser_gen"
    /\ sql_commands' = <<generate_sql_row_insert(table_name, cols_of(table_name), dataframe[1])>>
    /\ pc' = "ser_load"
    /\ UNCHANGED <<run, prompts, log, raised_at, conns, feed, table_name, dataframe, retry_insert,
                   failures, i, returned, hist>>
    /\ UNCHANGED <<cfg_vars, srv_vars, df_vars, prov_vars>>
    /\ UNCHANGED <<api_vars, prev, postgres_password, upd_args>>

\* cur.execute(sql_command) in autocommit mode
SerLoad ==
    /\ pc = "ser_load"
    /\ IF Accepts(sql_commands[1], tables, data)
       THEN /\ data' = Apply(sql_commands[1], data)
            /\ failures' = failures
       ELSE /\ data' = data
            /\ failures' = Append(failures, dataframe[1])
    /\ pc' = "ser_done"
    /\ UNCHANGED <<run, prompts, log, raised_at, conns, feed, table_name, dataframe, sql_commands,
                   retry_insert, i, returned, hist>>
    /\ UNCHANGED <<pg_database, extension, tables, roles, grants>>
    /\ UNCHANGED <<cfg_vars, df_vars, prov_vars>>
    /\ UNCHANGED <<api_vars, prev, postgres_password, upd_args>>

SerNext == SerGenerate \/ SerLoad

SerSpec == SerInit /\ [][SerNext]_vars

\* --------------------------------------------------- truncate_db alone
\* truncate_db called on a destination in which any of the defined tables
\* may be missing and the others hold what an earlier load left.
StatementsOf(t, df) == [j \in 1..Len(df) |-> generate_sql_row_insert(t, cols_of(t), df[j])]

\* the rows a row-by-row load in autocommit mode leaves in the destination
RECURSIVE RunRows(_, _, _)
RunRows(cmds, tabs, d) ==
    IF cmds = <<>> THEN d
    ELSE RunRows(Tail(cmds), tabs,
                 IF Accepts(Head(cmds), tabs, d) THEN Apply(Head(cmds), d) ELSE d)

LoadedData(f, tabs) ==
    RunRows(StatementsOf("evse", evse_df_of(f)), tabs,
            RunRows(StatementsOf("station", station_df_of(f)), tabs, EmptyData))

\* evse references station, so it does not exist without it
TableSets == { {}, {"station"}, {"station", "evse"} }

TrInit ==
    /\ pc = "tr_open"
    /\ run = 1
    /\ raised_at = "none"
    /\ prompts = 0
    /\ log = <<>>
    /\ conns = <<>>
    /\ keyring = "good"
    /\ admin_password = "good"
    /\ api_keyring = "good"
    /\ api_key = "none"
    /\ key_valid = FALSE
    /\ user_passwords = [u \in UserSet |-> NoPassword]
    /\ pg_database = {database}
    /\ extension = TRUE
    /\ tables \in TableSets
    /\ roles = [u \in UserSet |-> NoPassword]
    /\ grants = {}
    /\ feed \in Feeds
    /\ data = LoadedData(feed, tables)
    /\ station_df = <<>>
    /\ evse_df = <<>>
    /\ db_exists = TRUE
    /\ ti = 1
    /\ oi = 1
    /\ ii = 1
    /\ user_exists = FALSE
    /\ ru_admin_password = "none"
    /\ table_name = "station"
    /\ dataframe = <<>>
    /\ sql_commands = <<>>
    /\ retry_insert = FALSE
    /\ failures = <<>>
    /\ i = 1
    /\ returned = [t \in {"station", "evse"} |-> NotReturned]
    /\ hist = [NoHist EXCEPT !.data_at_call = data]
    /\ prev = NoPrev
    /\ postgres_password = "good"
    /\ upd_args = NoUpdArgs

TrNext == TrOpen \/ TrCheck \/ TrTruncate \/ TrClose

TrSpec == TrInit /\ [][TrNext]_vars

\* ------------------- legacy SQL.generate_sql_row_update (configs/src/tools/sql.py)
\* key_columns(table): lookup (424-462)
key_columns ==
    [audit_process_log |-> <<"audit_id">>,
     audit_s3_files |-> <<"file_id">>,
     audit_data_imports |-> <<"audit_id", "file_id">>,
     site |-> <<"site_id">>,
     evse |-> <<"site_id", "evse_id">>,
     port |-> <<"evse_id", "port_id">>,
     session |-> <<"evse_id", "port_id", "session_id">>,
     interval |-> <<"session_id", "interval_id">>,
     downtime |-> <<"site_id", "evse_id", "port_id", "event_start_utc">>,
     initial_application |-> <<"application_id">>,
     post_installation |-> <<"application_id">>,
     equipment |-> <<"application_id", "evse_id">>,
     program_administration |-> <<"date">>,
     staging_site |-> <<"audit_id", "evsp", "evsp_site_id">>,
     staging_evse |-> <<"audit_id", "evsp", "evsp_site_id", "evsp_evse_id">>,
     staging_port |-> <<"audit_id", "evsp", "evsp_evse_id", "evsp_port_id">>,
     staging_session |-> <<"audit_id", "evsp", "evsp_port_id", "evsp_session_id">>,
     staging_interval |-> <<"audit_id", "evsp", "evsp_session_id", "evsp_interval_id">>,
     staging_downtime |-> <<"audit_id", "evsp", "evsp_site_id", "evsp_evse_id", "evsp_port_id",
                            "event_start_utc">>,
     staging_initial_application |-> <<>>,
     staging_post_installation |-> <<>>,
     staging_equipment |-> <<"audit_id", "application_id", "evse_serial_number">>,
     staging_program_administration |-> <<>>,
     historical_site |-> <<>>,
     historical_evse |-> <<>>,
     historical_port |-> <<>>,
     historical_session |-> <<>>,
     historical_interval |-> <<>>,
     historical_downtime |-> <<>>,
     historical_initial_application |-> <<>>,
     historical_post_installation |-> <<>>,
     historical_equipment |-> <<>>,
     historical_program_administration |-> <<>>]

\* delivered_update_key_columns(table): lookup (501-515)
delivered_update_key_columns ==
    [site |-> <<"site_id">>,
     evse |-> <<"site_id", "evse_id">>,
     port |-> <<"evse_id", "port_id">>,
     session |-> <<"port_id", "session_id">>,
     interval |-> <<"session_id", "interval_id">>,
     downtime |-> <<"site_id", "evse_id", "port_id", "event_start_date", "event_start_time">>,
     initial_application |-> <<"application_id">>,
     post_installation |-> <<"application_id">>,
     equipment |-> <<"application_id", "evse_id">>,
     program_administration |-> <<"date">>]

\* update_key_columns(table): lookup (535-549)
update_key_columns ==
    [site |-> <<"site_id">>,
     evse |-> <<"site_id", "evse_id">>,
     port |-> <<"evse_id", "port_id">>,
     session |-> <<"port_id", "session_id">>,
     interval |-> <<"session_id", "interval_id">>,
     downtime |-> <<"site_id", "evse_id", "port_id", "downtime_id">>,
     initial_application |-> <<"application_id">>,
     post_installation |-> <<"application_id">>,
     equipment |-> <<"application_id", "evse_id">>,
     program_administration |-> <<"date">>]

\* ('staging' in table) | ('historical' in table) | ('audit' in table), on
\* the table names of the lookups
StagingHistoricalAudit ==
    DOMAIN key_columns \ DOMAIN update_key_columns

\* where_keys (591-598); lookup[table] raises KeyError for a table without entry
where_keys(table, delivered_status) ==
    LET lookup == IF delivered_status THEN delivered_update_key_columns
                  ELSE IF table \in StagingHistoricalAudit THEN key_columns
                  ELSE update_key_columns
    IN  IF table \in DOMAIN lookup THEN [ok |-> TRUE, keys |-> lookup[table]]
        ELSE [ok |-> FALSE, keys |-> <<>>]

\* the pieces of the statement text
Kw(x) == [kind |-> "kw", text |-> <<x>>]
Id(x) == [kind |-> "id", text |-> <<x>>]
Lit(s) == [kind |-> "lit", text |-> s]

IdsOf(pieces) == LET ids == SelectSeq(pieces, LAMBDA x : x.kind = "id")
                 IN  [j \in 1..Len(ids) |-> ids[j].text[1]]
LitsOf(pieces) == LET lits == SelectSeq(pieces, LAMBDA x : x.kind = "lit")
                  IN  [j \in 1..Len(lits) |-> lits[j].text]
\* a pandas Series: entries [col, val] in index order
Index(series) == [j \in 1..Len(series) |-> series[j].col]
Occurrences(series, c) == Cardinality({ j \in 1..Len(series) : series[j].col = c })
Get(series, c) == series[CHOOSE j \in 1..Len(series) : series[j].col = c].val

\* datetime.utcnow() and the bool of the delivered column, as cell values
utcnow == Num(<<"t">>)
bool_value(b) == Num(IF b THEN <<"T", "r", "u", "e">> ELSE <<"F", "a", "l", "s", "e">>)

\* created_series, updated_series, delivered_series in the order they are
\* appended (600-627)
added_series(args) ==
    (IF args.add_created_dt THEN <<[col |-> "created_dt", val |-> utcnow]>> ELSE <<>>)
    \o (IF args.add_updated_dt THEN <<[col |-> "updated_dt", val |-> utcnow]>> ELSE <<>>)
    \o (IF args.add_delivered
        THEN <<[col |-> "delivered", val |-> bool_value(args.delivered_status)]>> ELSE <<>>)

\* mutant: every column of the row goes into the SET clause
col_names_all(cols, update_dict) == cols

\* for col in cols: if update_dict.get(col): col_names.append(col)  (631-636)
col_names(cols, update_dict) == SelectSeq(cols, LAMBDA c : c \in update_dict)

\* row_dict[col] (641-646): NULL for NaN, else the value between quotes
update_literal(v) == IF v.kind = "nan" THEN NULLkw ELSE <<Quote>> \o v.s \o <<Quote>>
\* f"{key} = '{data_series[key]}'" (651-652): str() of the value between quotes
where_literal(v) ==
    <<Quote>> \o (IF v.kind = "nan" THEN <<"n", "a", "n">> ELSE v.s) \o <<Quote>>

\* sep.join(items)
RECURSIVE Join(_, _)
Join(items, sep) ==
    IF items = <<>> THEN <<>>
    ELSE IF Len(items) = 1 THEN items[1]
    ELSE items[1] \o <<sep>> \o Join(Tail(items), sep)

\* SQL.generate_sql_row_update (583-660): the statement, or ok = FALSE when
\* the call raises (KeyError of a lookup or of data_series[key], ValueError
\* of pd.isna on a column that occurs twice), and update_dict as the call
\* leaves it
generate_sql_row_update(table, data_series, args) ==
    LET wk == where_keys(table, args.delivered_status)
        extra == added_series(args)
        cols == Index(data_series) \o Index(extra)
        update_dict == args.update_dict \cup Range(Index(extra))
        series == data_series \o extra
        names == col_names(cols, update_dict)
        set_items == [j \in 1..Len(names) |->
                        <<Id(names[j]), Kw("="), Lit(update_literal(Get(series, names[j])))>>]
        where_items == [j \in 1..Len(wk.keys) |->
                          <<Id(wk.keys[j]), Kw("="), Lit(where_literal(Get(series, wk.keys[j])))>>]
    IN  IF ~wk.ok
        THEN [ok |-> FALSE, stmt |-> <<>>, update_dict |-> args.update_dict]
        ELSE IF \/ \E j \in 1..Len(names) : Occurrences(series, names[j]) # 1
                \/ \E j \in 1..Len(wk.keys) : Occurrences(series, wk.keys[j]) = 0
        THEN [ok |-> FALSE, stmt |-> <<>>, update_dict |-> update_dict]
        ELSE [ok |-> TRUE,
              stmt |-> <<Kw("UPDATE"), Id(table), Kw("SET")>>
                       \o Join(set_items, Kw(","))
                       \o (IF where_items # <<>>
                           THEN <<Kw("WHERE")>> \o Join(where_items, Kw("AND")) ELSE <<>>)
                       \o <<Kw(";")>>,
              update_dict |-> update_dict]

\* the calls of the harness: tables with one, several, other and no key
\* columns, rows with and without their key columns
UpdTables == {"site", "downtime", "staging_site", "historical_site"}
UpdIndexes(table) ==
    IF table = "site"
    THEN { <<"site_id", "name">>, <<"name">>, <<"site_id", "name", "updated_dt">> }
    ELSE IF table = "downtime"
    THEN { <<"site_id", "evse_id", "port_id", "downtime_id", "event_start_date",
             "event_start_time", "status">> }
    ELSE IF table = "staging_site"
    THEN { <<"audit_id", "evsp", "evsp_site_id", "name">> }
    ELSE { <<"site_id", "name">> }
\* the first and the last cell vary, the others hold a number
UpdSeries(index) ==
    { [j \in 1..Len(index) |->
         [col |-> index[j],
          val |-> IF j = 1 THEN first ELSE IF j = Len(index) THEN last ELSE Num(<<"7">>)]]
      : first \in {Num(<<"7">>), NaN}, last \in {NaN, Str(<<"a">>), Str(<<"o", Quote, "b">>)} }

UpdInit ==
    /\ pc = "upd_gen"
    /\ run = 1
    /\ raised_at = "none"
    /\ prompts = 0
    /\ log = <<>>
    /\ conns = <<>>
    /\ keyring = "good"
    /\ admin_password = "good"
    /\ api_keyring = "good"
    /\ api_key = "none"
    /\ key_valid = FALSE
    /\ user_passwords = [u \in UserSet |-> NoPassword]
    /\ pg_database = {database}
    /\ extension = TRUE
    /\ tables = {}
    /\ roles = [u \in UserSet |-> NoPassword]
    /\ grants = {}
    /\ data = EmptyData
    /\ feed = <<>>
    /\ station_df = <<>>
    /\ evse_df = <<>>
    /\ db_exists = TRUE
    /\ ti = 1
    /\ oi = 1
    /\ ii = 1
    /\ user_exists = FALSE
    /\ ru_admin_password = "none"
    /\ table_name \in UpdTables
    /\ \E index \in UpdIndexes(table_name) :
         /\ \E series \in UpdSeries(index) : dataframe = <<series>>
         /\ \E flagged \in SUBSET Range(index) :
              \E c, u, d, s \in BOOLEAN :
                 upd_args = [update_dict |-> flagged, update_dict_at_call |-> flagged,
                             add_created_dt |-> c, add_updated_dt |-> u,
                             add_delivered |-> d, delivered_status |-> s]
    /\ sql_commands = <<>>
    /\ retry_insert = FALSE
    /\ failures = <<>>
    /\ i = 1
    /\ returned = [t \in {"station", "evse"} |-> NotReturned]
    /\ hist = NoHist
    /\ prev = NoPrev
    /\ postgres_password = "good"

\* sql_commands.append(self.generate_sql_row_update(...)) (566-575)
UpdGenerate ==
    /\ pc = "upd_gen"
    /\ LET result == generate_sql_row_update(table_name, dataframe[1], upd_args)
       IN  /\ upd_args' = [upd_args EXCEPT !.update_dict = result.update_dict]
           /\ IF result.ok
              THEN /\ sql_commands' = <<result.stmt>>
                   /\ pc' = "upd_done"
                   /\ UNCHANGED <<raised_at, conns>>
              ELSE /\ Raise(0)
                   /\ UNCHANGED sql_commands
    /\ UNCHANGED <<run, prompts, log, feed, table_name, dataframe, retry_insert,
                   failures, i, returned, hist, prev, postgres_password>>
    /\ UNCHANGED <<cfg_vars, api_vars, srv_vars, df_vars, prov_vars>>

\* legacy SQL.generate_sql_row_insert (358-412): INSERT INTO table (cols)
\* VALUES (literals); with the columns the call appends; add_delivered
\* appends the value False; ok = FALSE when pd.isna meets a column that
\* occurs twice
legacy_generate_sql_row_insert(table, data_series, args) ==
    LET extra == (IF args.add_created_dt THEN <<[col |-> "created_dt", val |-> utcnow]>> ELSE <<>>)
                 \o (IF args.add_updated_dt THEN <<[col |-> "updated_dt", val |-> utcnow]>> ELSE <<>>)
                 \o (IF args.add_delivered
                     THEN <<[col |-> "delivered", val |-> bool_value(FALSE)]>> ELSE <<>>)
        cols == Index(data_series) \o Index(extra)
        series == data_series \o extra
    IN  IF \E j \in 1..Len(cols) : Occurrences(series, cols[j]) # 1
        THEN [ok |-> FALSE, stmt |-> <<>>]
        ELSE [ok |-> TRUE,
              stmt |-> <<Kw("INSERT INTO"), Id(table), Kw("(")>>
                       \o Join([j \in 1..Len(cols) |-> <<Id(cols[j])>>], Kw(","))
                       \o <<Kw(")"), Kw("VALUES"), Kw("(")>>
                       \o Join([j \in 1..Len(cols) |-> <<Lit(update_literal(Get(series, cols[j])))>>],
                               Kw(","))
                       \o <<Kw(")"), Kw(";")>>]

\* sql_commands.append(self.generate_sql_row_insert(...)) (313-321)
UpdGenerateInsert ==
    /\ pc = "upd_gen"
    /\ LET result == legacy_generate_sql_row_insert(table_name, dataframe[1], upd_args)
       IN  IF result.ok
           THEN /\ sql_commands' = <<result.stmt>>
                /\ pc' = "ins_done"
                /\ UNCHANGED <<raised_at, conns>>
           ELSE /\ Raise(0)
                /\ UNCHANGED sql_commands
    /\ UNCHANGED <<run, prompts, log, feed, table_name, dataframe, retry_insert,
                   failures, i, returned, hist, prev, postgres_password, upd_args>>
    /\ UNCHANGED <<cfg_vars, api_vars, srv_vars, df_vars, prov_vars>>

UpdNext == UpdGenerate \/ UpdGenerateInsert

UpdSpec == UpdInit /\ [][UpdNext]_vars

\* ---------------- legacy SQL.df_insert_to_database (configs/src/tools/sql.py)
\* how the destination reads the INSERT a legacy serializer returned
ParseInsert(pieces) ==
    LET ids == IdsOf(SubSeq(pieces, 3, Len(pieces)))
    IN  [table |-> pieces[2].text[1], cols |-> ids, vals |-> LitsOf(pieces)]

\* connect_db (191-204): psy.connect; a new connection is in a transaction
\* of its own, not in autocommit mode
connect_db(cs) ==
    Append(cs, [target |-> "db", autocommit |-> FALSE, intx |-> FALSE, view |-> EmptyData])
\* conn.close()
conn_close(cs) == SubSeq(cs, 1, Len(cs) - 1)

LegIds == {Str(<<"1">>), Str(<<"2">>)}
LegNames == {NaN, Str(<<"a">>), Str(<<"o", Quote, "b">>)}
LegSeries ==
    { <<[col |-> "id", val |-> id], [col |-> "station_name", val |-> name]>>
      : id \in LegIds, name \in LegNames }

LegInit ==
    /\ pc = "lg_gen"
    /\ run = 1
    /\ raised_at = "none"
    /\ prompts = 0
    /\ log = <<>>
    /\ conns = <<>>
    /\ keyring = "good"
    /\ admin_password = "good"
    /\ api_keyring = "good"
    /\ api_key = "none"
    /\ key_valid = FALSE
    /\ user_passwords = [u \in UserSet |-> NoPassword]
    /\ pg_database = {database}
    /\ extension = TRUE
    /\ tables = {"station", "evse"}
    /\ roles = [u \in UserSet |-> NoPassword]
    /\ grants = {}
    /\ data = EmptyData
    /\ feed = <<>>
    /\ station_df = <<>>
    /\ evse_df = <<>>
    /\ db_exists = TRUE
    /\ ti = 1
    /\ oi = 1
    /\ ii = 1
    /\ user_exists = FALSE
    /\ ru_admin_password = "none"
    /\ table_name = "station"
    /\ dataframe \in SeqsUpTo(LegSeries, MaxFeed)
    /\ sql_commands = <<>>
    /\ retry_insert = FALSE
    /\ failures = <<>>
    /\ i = 1
    /\ returned = [t \in {"station", "evse"} |-> NotReturned]
    /\ hist = NoHist
    /\ prev = NoPrev
    /\ postgres_password = "good"
    /\ upd_args = NoUpdArgs

\* retry_insert = False; failures = DataFrame(); one statement per row (307-321)
LegGenerate ==
    /\ pc = "lg_gen"
    /\ sql_commands' =
          [j \in 1..Len(dataframe) |->
              ParseInsert(legacy_generate_sql_row_insert(table_name, dataframe[j], upd_args).stmt)]
    /\ retry_insert' = FALSE
    /\ failures' = <<>>
    /\ pc' = IF dataframe = <<>> THEN "lg_return" ELSE "lg_batch_open"
    /\ UNCHANGED <<run, prompts, log, raised_at, conns, feed, table_name, dataframe, i,
                   returned, hist, prev, postgres_password, upd_args>>
    /\ UNCHANGED <<cfg_vars, api_vars, srv_vars, df_vars, prov_vars>>

\* execute_batch_sql_commands (414-418): conn = self.connect_db(...);
\* cur = conn.cursor(). connect_db returns None when psy.connect fails, and
\* None.cursor() raises into the bare except of the loader (329-330).
LegBatchOpen ==
    /\ pc = "lg_batch_open"
    /\ \E up \in BOOLEAN :
         IF up /\ CanConnect("db")
         THEN /\ conns' = connect_db(conns)
              /\ pc' = "lg_batch_exec"
              /\ UNCHANGED retry_insert
         ELSE /\ retry_insert' = TRUE
              /\ pc' = "lg_fb_open"
              /\ UNCHANGED conns
    /\ UNCHANGED <<run, prompts, log, raised_at, feed, table_name, dataframe, sql_commands,
                   failures, i, returned, hist, prev, postgres_password, upd_args>>
    /\ UNCHANGED <<cfg_vars, api_vars, srv_vars, df_vars, prov_vars>>

\* cur.execute(batch_query); conn.commit() (419-420). When execute raises,
\* conn.close() (421) is not reached: the connection stays open until the
\* interpreter collects the object, which may or may not have happened when
\* the loader goes on.
LegBatchExec ==
    /\ pc = "lg_batch_exec"
    /\ LET r == RunBatch(sql_commands, tables, data)
       IN  IF r.ok
           THEN /\ data' = r.data
                /\ pc' = "lg_batch_close"
                /\ UNCHANGED <<conns, retry_insert>>
           ELSE /\ \E collected \in BOOLEAN :
                     conns' = IF collected THEN conn_close(conns) ELSE conns
                /\ retry_insert' = TRUE
                /\ pc' = "lg_fb_open"
                /\ UNCHANGED data
    /\ UNCHANGED <<run, prompts, log, raised_at, feed, table_name, dataframe, sql_commands,
                   failures, i, returned, hist, prev, postgres_password, upd_args>>
    /\ UNCHANGED <<pg_database, extension, tables, roles, grants>>
    /\ UNCHANGED <<cfg_vars, api_vars, df_vars, prov_vars>>

\* conn.close() (421); retry_insert is False, return failures
LegBatchClose ==
    /\ pc = "lg_batch_close"
    /\ conns' = conn_close(conns)
    /\ pc' = "lg_return"
    /\ UNCHANGED <<run, prompts, log, raised_at, feed, prev, postgres_password, upd_args>>
    /\ UNCHANGED <<cfg_vars, api_vars, srv_vars, df_vars, prov_vars, load_vars>>

\* if retry_insert: conn = self.connect_db(...); cur = conn.cursor() (333-338);
\* with conn None the AttributeError leaves the loader
LegFbOpen ==
    /\ pc = "lg_fb_open"
    /\ \E up \in BOOLEAN :
         IF up /\ CanConnect("db")
         THEN /\ conns' = connect_db(conns)
              /\ i' = 1
              /\ pc' = "lg_fb_row"
              /\ UNCHANGED raised_at
         ELSE /\ Raise(0)
              /\ UNCHANGED i
    /\ UNCHANGED <<run, prompts, log, feed, table_name, dataframe, sql_commands, retry_insert,
                   failures, returned, hist, prev, postgres_password, upd_args>>
    /\ UNCHANGED <<cfg_vars, api_vars, srv_vars, df_vars, prov_vars>>

\* try: cur.execute(sql_command); conn.commit()
\* except: failures.append(dataframe.iloc[i]); conn.rollback()  (343-351)
LegFbRow ==
    /\ pc = "lg_fb_row"
    /\ IF Accepts(sql_commands[i], tables, data)
       THEN /\ data' = Apply(sql_commands[i], data)
            /\ UNCHANGED failures
       ELSE /\ failures' = Append(failures, dataframe[i])
            /\ UNCHANGED data
    /\ i' = i + 1
    /\ pc' = IF i = Len(sql_commands) THEN "lg_fb_close" ELSE "lg_fb_row"
    /\ UNCHANGED <<run, prompts, log, raised_at, conns, feed, table_name, dataframe,
                   sql_commands, retry_insert, returned, hist, prev, postgres_password, upd_args>>
    /\ UNCHANGED <<pg_database, extension, tables, roles, grants>>
    /\ UNCHANGED <<cfg_vars, api_vars, df_vars, prov_vars>>

\* conn.close() (354); return failures
LegFbClose ==
    /\ pc = "lg_fb_close"
    /\ conns' = conn_close(conns)
    /\ pc' = "lg_return"
    /\ UNCHANGED <<run, prompts, log, raised_at, feed, prev, postgres_password, upd_args>>
    /\ UNCHANGED <<cfg_vars, api_vars, srv_vars, df_vars, prov_vars, load_vars>>

LegNext ==
    \/ LegGenerate \/ LegBatchOpen \/ LegBatchExec \/ LegBatchClose
    \/ LegFbOpen \/ LegFbRow \/ LegFbClose

LegSpec == LegInit /\ [][LegNext]_vars

\* ======================================================== properties

\* The positions the destination rejects when the statements reach it one at
\* a time, in order, starting from the rows d.
RECURSIVE RejectedIx(_, _, _, _)
RejectedIx(cmds, j, tabs, d) ==
    IF j > Len(cmds) THEN {}
    ELSE IF Accepts(cmds[j], tabs, d)
         THEN RejectedIx(cmds, j + 1, tabs, Apply(cmds[j], d))
    ELSE {j} \cup RejectedIx(cmds, j + 1, tabs, d)

Rejected == RejectedIx(sql_commands, 1, tables, hist.data_at_call)

\* rows of the table being loaded that arrived during the current call
Arrived == Len(data[table_name]) - Len(hist.data_at_call[table_name])
Present(j) == StmtRow(sql_commands[j]) \in Range(data[table_name])

\* positions of the run at which the code is outside every with-block
OutsidePcs ==
    {"validate", "test_stored", "prompt", "test_input", "cdb_open", "cdb_ext_open",
     "ct_open", "ru_start", "ru_open1", "ru_record", "tr_open",
     "api_validate", "api_test_stored", "api_prompt", "api_test_input", "api_store", "api",
     "ld_gen", "ld_batch_open", "ld_fb_open", "ld_return", "done", "aborted"}
\* positions inside SQL.__init__
ConstructionPcs ==
    {"validate", "test_stored", "test_stored_close", "prompt", "test_input",
     "test_input_close", "cdb_open", "cdb_list", "cdb_create", "cdb_close",
     "cdb_ext_open", "cdb_ext", "cdb_ext_close", "ct_open", "ct_check", "ct_create",
     "ct_close", "ru_start", "ru_open1", "ru_exists", "ru_create", "ru_connect",
     "ru_open2", "ru_usage", "ru_select", "ru_close2", "ru_close1", "ru_record",
     "tr_open", "tr_check", "tr_truncate", "tr_close"}
\* positions inside API.validate_api_key
ApiValidatePcs == {"api_validate", "api_test_stored", "api_prompt", "api_test_input", "api_store"}
\* positions inside df_insert_to_database
LoadPcs ==
    {"ld_gen", "ld_batch_open", "ld_batch_exec", "ld_batch_close", "ld_fb_open",
     "ld_fb_row", "ld_fb_rollback", "ld_fb_close", "ld_return"}

\* C1: when df_insert_to_database is about to return and exactly one row k of
\* its N rows is rejected by the destination, the failure set is exactly row k
\* and the other N-1 rows are in the destination table.
C1_ExactlyRowKFails ==
    (pc = "ld_return" /\ Cardinality(Rejected) = 1) =>
        LET k == CHOOSE k \in Rejected : TRUE
        IN  /\ hist.failed_ix = <<k>>
            /\ failures = <<dataframe[k]>>
            /\ \A j \in (1..Len(dataframe)) \ {k} : Present(j)
            /\ Arrived = Len(dataframe) - 1

\* C1 witness: a call of two rows or more, exactly one of them rejected and not
\* the last, is about to return after its batch failed
C1_Witness ==
    /\ pc = "ld_return"
    /\ Len(dataframe) >= 2
    /\ Cardinality(Rejected) = 1
    /\ Len(dataframe) \notin Rejected
    /\ Len(failures) = 1
    /\ hist.batch_execs = 1

\* C2: when the batched execution succeeded, the call returns an empty failure
\* set, every input row is in the destination, and no statement was executed
\* individually.
C2_BatchSuccess ==
    (pc = "ld_return" /\ hist.batch_ok) =>
        /\ failures = <<>>
        /\ \A j \in 1..Len(dataframe) : Present(j)
        /\ Arrived = Len(dataframe)
        /\ \A j \in 1..Len(dataframe) : hist.row_execs[j] = 0
        /\ hist.rollbacks = 0

\* C2 witness: a batch of two rows succeeded and the call is about to return
C2_Witness ==
    /\ pc = "ld_return"
    /\ hist.batch_ok
    /\ Len(dataframe) >= 2

\* rows of the loaded table that a statement on the fallback connection sees
Visible == Range(View(Top(conns))[table_name])

\* C3: in the per-row fallback a row whose execution fails is added to the
\* failure set and the rollback comes before the next row is attempted; the
\* rollback removes no row inserted earlier in the pass: every row a
\* successful insert made visible is committed, and is still in the
\* destination after the rollback.
C3_RollbackKeepsInserted ==
    [][ /\ (pc = "ld_fb_row" /\ ~Accepts(sql_commands[i], tables, View(fallback_autocommit(Top(conns)))))
            => /\ failures' = Append(failures, dataframe[i])
               /\ pc' = "ld_fb_rollback"
               /\ i' = i
        /\ pc = "ld_fb_row" => hist.rollbacks = Len(failures)
        /\ pc = "ld_fb_rollback"
            => /\ hist'.rollbacks = hist.rollbacks + 1
               /\ \A j \in hist.inserted_ix :
                     /\ StmtRow(sql_commands[j]) \in Visible
                     /\ StmtRow(sql_commands[j]) \in Range(data'[table_name])
               /\ Visible \subseteq Range(data'[table_name])
               /\ data' = data
      ]_vars

\* C3 witness: a rollback has been issued for a row that failed after another
\* row of the same pass was inserted
C3_Witness ==
    /\ pc \in {"ld_fb_row", "ld_fb_close"}
    /\ hist.rollbacks >= 1
    /\ \E j \in hist.inserted_ix : j < hist.failed_ix[1]

C6_ConnectErrorSurfaced ==
    hist.batch_connect_error => (pc = "aborted" /\ hist.connects = 1)

\* C9: outside the with-blocks of an operation, and so after the operation
\* returned or raised, no connection it opened is open.
C9_NoConnectionOutlives ==
    pc \in OutsidePcs => conns = <<>>

\* C9 witness: an operation raised at a statement inside two nested
\* with-blocks and nothing is left open
C9_Witness ==
    /\ pc = "aborted"
    /\ raised_at = "ru_select"
    /\ conns = <<>>

\* C10 as stated: at most one connection is open at any point of a run.
C10_AtMostOneConnection ==
    Len(conns) <= 1

\* the value of column c in the row given to the serializer, its literal in
\* the statement, and the value the destination stored for it
SerInput(c) == dataframe[1][c]
SerLiteral(c) == sql_commands[1].vals[ColPos(sql_commands[1].cols, c)]
SerStored(c) == data[table_name][1][c]
SerCols == Range(cols_of(table_name))
SerLoaded == pc = "ser_done" /\ data[table_name] # <<>>

\* C7: in the statement of generate_sql_row_insert a null/NaN value is the
\* unquoted keyword NULL and every other value is a literal between quotes;
\* once the row is loaded the column is null in the destination.
C7_NullRoundTrip ==
    /\ pc \in {"ser_load", "ser_done"} =>
          \A c \in SerCols :
             IF SerInput(c).kind = "nan"
             THEN /\ SerLiteral(c) = <<"N", "U", "L", "L">>
                  /\ ~HasChar(SerLiteral(c), Quote)
             ELSE /\ Len(SerLiteral(c)) >= 2
                  /\ SerLiteral(c)[1] = Quote
                  /\ SerLiteral(c)[Len(SerLiteral(c))] = Quote
    /\ SerLoaded =>
          \A c \in SerCols : SerInput(c).kind = "nan" => SerStored(c).null

\* C7 witness: a row with a NaN station_name has been loaded
C7_Witness ==
    /\ SerLoaded
    /\ SerInput("station_name").kind = "nan"
    /\ SerStored("station_name").null

\* the characters of s that are not quotes, in order
WithoutQuotes(s) == SelectSeq(s, LAMBDA ch : ch # Quote)

\* C8: for a string value with single quotes, the literal has no quote between
\* its opening and closing quote, keeps the other characters in order, and the
\* value stored is the input without its quotes.
C8_QuotesStripped ==
    \A c \in SerCols :
       (SerInput(c).kind = "str" /\ HasChar(SerInput(c).s, Quote)) =>
          /\ pc \in {"ser_load", "ser_done"} =>
                /\ Len(SerLiteral(c)) >= 2
                /\ SerLiteral(c)[1] = Quote
                /\ SerLiteral(c)[Len(SerLiteral(c))] = Quote
                /\ ~HasChar(Interior(SerLiteral(c)), Quote)
                /\ Interior(SerLiteral(c)) = WithoutQuotes(SerInput(c).s)
          /\ SerLoaded =>
                /\ ~SerStored(c).null
                /\ SerStored(c).s = WithoutQuotes(SerInput(c).s)

\* C8 witness: a loaded row whose station_name held a quote and a letter
C8_Witness ==
    /\ SerLoaded
    /\ HasChar(SerInput("station_name").s, Quote)
    /\ SerStored("station_name").s = <<"a">>

\* ---------------------------------------------------------------- C11..C20
\* where the run is, or where it stopped
Pos == IF pc = "aborted" THEN raised_at ELSE pc
ValidatePcs ==
    {"validate", "test_stored", "test_stored_close", "prompt", "test_input", "test_input_close"}
CdbPcs ==
    {"cdb_open", "cdb_list", "cdb_create", "cdb_close", "cdb_ext_open", "cdb_ext", "cdb_ext_close"}
CtPcs == {"ct_open", "ct_check", "ct_create", "ct_close"}
TrPcs == {"tr_open", "tr_check", "tr_truncate", "tr_close"}
\* positions of the main run (the serializer harness has its own)
RunPcs == ConstructionPcs \cup ApiValidatePcs \cup LoadPcs \cup {"api", "done"}

\* statements of one kind in the log of the run
Issued(op) == { j \in 1..Len(log) : log[j].op = op }
IssuedFor(op, arg, role) ==
    { j \in 1..Len(log) : log[j] = [op |-> op, arg |-> arg, role |-> role] }

\* C11: create_database with the database absent creates it and then creates
\* the extension in it; with the database present it finds it under the name
\* it was created with, sends neither CREATE DATABASE nor CREATE EXTENSION,
\* and nothing after the lookup can raise.
C11_CreateDatabaseOnce ==
    /\ (Pos \in RunPcs \ (ValidatePcs \cup CdbPcs) /\ ~db_exists) =>
          /\ database \in pg_database
          /\ extension
          /\ Cardinality(Issued("CREATE DATABASE")) = 1
          /\ Cardinality(Issued("CREATE EXTENSION")) = 1
          /\ \A a \in Issued("CREATE DATABASE") : \A b \in Issued("CREATE EXTENSION") : a < b
    /\ db_exists =>
          /\ Issued("CREATE DATABASE") = {}
          /\ Issued("CREATE EXTENSION") = {}
          /\ Pos \notin {"cdb_create", "cdb_ext_open", "cdb_ext", "cdb_ext_close"}
    /\ pc = "cdb_create" => pg_database = {}
    /\ Issued("CREATE DATABASE") # {} => ~db_exists

\* C11 witness: the second invocation found the database the first one
\* created and create_database returned without sending a statement
C11_Witness ==
    /\ run = 2
    /\ pc = "ct_open"
    /\ db_exists
    /\ extension
    /\ log = <<>>

\* C12: create_tables creates only tables that do not exist, so a call that
\* finds every defined table sends no CREATE TABLE and meets no
\* duplicate-table error; no step of create_tables changes the rows of a
\* table or removes a table.
C12_CreateTablesIdempotent ==
    [][ /\ pc \in CtPcs => (data' = data /\ tables \subseteq tables')
        /\ (pc \in CtPcs /\ Len(log') > Len(log)) =>
              (/\ pc = "ct_create"
               /\ log'[Len(log')] = [op |-> "CREATE TABLE", arg |-> db_structure[ti], role |-> ""]
               /\ db_structure[ti] \notin tables)
        /\ (pc \in CtPcs /\ tables = Range(db_structure)) =>
              (log' = log /\ pc' \in CtPcs \cup {"ru_start", "aborted"})
        /\ pc = "ct_create" => db_structure[ti] \notin tables
      ]_vars

\* C12 witness: the second invocation went through create_tables with both
\* tables present and loaded, and sent nothing
C12_Witness ==
    /\ run = 2
    /\ pc = "ct_close"
    /\ tables = Range(db_structure)
    /\ data["station"] # <<>>
    /\ data["evse"] # <<>>
    /\ log = <<>>

\* positions after create_read_only_users returned
AfterRuPcs == TrPcs \cup ApiValidatePcs \cup LoadPcs \cup {"api", "done"}

\* C13: whenever create_read_only_users has returned, in a first or in a
\* later invocation, the roles exist and the privileges are the same set;
\* CREATE USER is sent only for a role that does not exist, so an existing
\* role meets no duplicate-role error, while the CONNECT, USAGE and SELECT
\* grants are sent for every user in every invocation.
C13_ReadOnlyUsersIdempotent ==
    /\ Pos \in AfterRuPcs =>
          /\ grants = ReadOnlyGrants
          /\ \A u \in Range(users) : roles[u] # NoPassword
          /\ \A u \in Range(users) :
                /\ IssuedFor("GRANT CONNECT", "database", u) # {}
                /\ IssuedFor("GRANT USAGE", "public", u) # {}
                /\ \A t \in Range(read_only_tables) : IssuedFor("GRANT SELECT", t, u) # {}
    /\ (pc = "ru_create" /\ roles[user] # NoPassword) => user_exists
    /\ \A u \in Range(users) : Cardinality(IssuedFor("CREATE USER", "", u)) <= 1
    /\ (run > 1 /\ grants = ReadOnlyGrants /\ Issued("CREATE USER") = {}) =>
          ~(pc = "aborted" /\ raised_at = "ru_create" /\ ~user_exists)

\* C13 witness: a second invocation returned from create_read_only_users
\* without creating a role and with the grants sent again
C13_Witness ==
    /\ run = 2
    /\ pc = "tr_open"
    /\ Issued("CREATE USER") = {}
    /\ grants = ReadOnlyGrants
    /\ \A u \in Range(users) : IssuedFor("GRANT SELECT", "evse", u) # {}

\* positions of create_read_only_users that execute a statement
RuStatementPcs == {"ru_exists", "ru_create", "ru_connect", "ru_usage", "ru_select"}

\* C14 as stated: when a statement of create_read_only_users failed, the
\* error reached the caller, the failed statement is the last one sent in
\* that call, and the derived password of the user it was sent for is not
\* recorded in db_configs.
C14_FailureLeavesNoPassword ==
    (pc = "aborted" /\ raised_at \in RuStatementPcs) =>
       /\ log # <<>>
       /\ log[Len(log)].role = user
       /\ user_passwords[user] = NoPassword

\* C15: the privileges granted to the read-only users are never more than
\* CONNECT on the database, USAGE on schema public and SELECT on the
\* read-only tables, all of them defined tables; no statement of the
\* provisioning names the administrative user; once provisioning has
\* returned each user holds exactly that set.
C15_LeastPrivilege ==
    /\ grants \subseteq ReadOnlyGrants
    /\ \A g \in grants :
          /\ g.role # admin_user
          /\ g.priv \in {"CONNECT", "USAGE", "SELECT"}
          /\ g.priv \notin {"INSERT", "UPDATE", "DELETE", "TRUNCATE"}
          /\ g.priv = "CONNECT" => g.on = "database"
          /\ g.priv = "USAGE" => g.on = "public"
          /\ g.priv = "SELECT" => (g.on \in Range(read_only_tables) /\ g.on \in Range(db_structure))
    /\ \A j \in 1..Len(log) : log[j].role # admin_user
    /\ \A j \in 1..Len(log) :
          log[j].op \in {"GRANT CONNECT", "GRANT USAGE", "GRANT SELECT", "CREATE USER"} =>
             log[j].role \in Range(users)
    /\ Pos \in AfterRuPcs =>
          \A u \in Range(users) : { g \in grants : g.role = u } =
             { [role |-> u, priv |-> "CONNECT", on |-> "database"],
               [role |-> u, priv |-> "USAGE", on |-> "public"] }
             \cup { [role |-> u, priv |-> "SELECT", on |-> t] : t \in Range(read_only_tables) }

\* C15 witness: the first provisioning returned and every user holds grants
C15_Witness ==
    /\ run = 1
    /\ pc = "tr_open"
    /\ \A u \in Range(users) : [role |-> u, priv |-> "SELECT", on |-> "station"] \in grants
    /\ Issued("CREATE USER") # {}

\* C16: the program changes a secret store only in the step that follows a
\* successful test of the very secret that is written: the administrative
\* password after a connection opened with it, the API key after a test
\* request with it that was answered 200; a failed test leaves the stores as
\* they were. (Between two invocations the stored credential may be removed
\* by hand; that is no step of the program.)
C16_StoredOnlyAfterValidation ==
    [][ /\ (keyring' # keyring /\ run' = run) =>
              (/\ pc = "test_input_close"
               /\ keyring' = admin_password
               /\ CanConnect("server")
               /\ conns # <<>>)
        /\ api_keyring' # api_keyring =>
              (/\ pc = "api_store"
               /\ key_valid
               /\ api_keyring' = api_key
               /\ KeyAccepted(api_key))
        /\ (pc \in {"test_stored", "test_input"} /\ pc' = "aborted") => keyring' = keyring
        /\ (pc \in {"api_test_stored", "api_test_input"} /\ ~key_valid') => api_keyring' = api_keyring
        /\ (pc = "api_store" /\ ~key_valid) => (api_keyring' = api_keyring /\ pc' = "api_validate")
      ]_vars

\* C16 witness: the administrative password was typed in, tested and stored,
\* the stored API key was refused, and the key typed in has just passed its
\* test and is about to be stored
C16_Witness ==
    /\ pc = "api_store"
    /\ prompts = 1
    /\ keyring = "good"
    /\ api_keyring = "bad"
    /\ api_key = "good"
    /\ key_valid

\* C17: when truncate_db has returned normally every defined table that
\* exists is empty, a table that references a truncated one included; the
\* TRUNCATE statements are sent on the one connection the call opened, one
\* for every defined table that exists; a defined table that does not exist
\* gets no statement and raises nothing.
C17_TruncateEmptiesAll ==
    /\ pc = "api_validate" =>
          /\ \A t \in Range(db_structure) : t \in tables => data[t] = <<>>
          /\ { log[j].arg : j \in Issued("TRUNCATE") } = tables \cap Range(db_structure)
          /\ Cardinality(Issued("TRUNCATE")) = Cardinality(tables \cap Range(db_structure))
    /\ pc \in {"tr_check", "tr_truncate", "tr_close"} =>
          (Len(conns) = 1 /\ Top(conns).target = "db")
    /\ (pc \in {"tr_check", "tr_truncate", "tr_close"} /\ ti > 1 /\ "station" \in tables) =>
          data = EmptyData
    /\ pc = "tr_truncate" => db_structure[ti] \in tables
    /\ \A j \in Issued("TRUNCATE") : log[j].arg \in tables

\* C17 witness: truncate_db returned from a destination where station held
\* rows and evse did not exist
C17_Witness ==
    /\ pc = "api_validate"
    /\ tables = {"station"}
    /\ hist.data_at_call.station # <<>>
    /\ data = EmptyData
    /\ log = <<[op |-> "TRUNCATE", arg |-> "station", role |-> ""]>>

\* C18: a complete invocation that follows a complete invocation which got
\* the same feed leaves exactly the rows the first one left, no station
\* twice, and its loads report the failures the first one's reported: no
\* row fails because of what the first invocation left.
C18_RerunSameContents ==
    /\ (pc = "done" /\ prev.done /\ station_df = prev.station_df /\ evse_df = prev.evse_df) =>
          /\ data = prev.data
          /\ \A t \in Range(db_structure) : returned[t].failed_ix = prev.returned[t].failed_ix
          /\ \A t \in Range(db_structure) : returned[t].failures = prev.returned[t].failures
    /\ pc = "done" =>
          /\ data = RunRows(StatementsOf("evse", evse_df), tables,
                            RunRows(StatementsOf("station", station_df), tables, EmptyData))
          /\ Cardinality(Ids(data.station)) = Len(data.station)
          /\ Len(data.evse) <= Len(evse_df)

\* C18 witness: the second of two complete invocations with the same feed
\* ended with rows in both tables and a failure reported
C18_Witness ==
    /\ run = 2
    /\ pc = "done"
    /\ prev.done
    /\ station_df = prev.station_df
    /\ evse_df = prev.evse_df
    /\ data.station # <<>>
    /\ data.evse # <<>>
    /\ returned["station"].failures # <<>>

\* FOREIGN KEY (id) REFERENCES station (id) in the definition of evse
Referenced(t) == IF t = "evse" THEN {"station"} ELSE {}
\* position of a table in the definition order
DefPos(t) == CHOOSE j \in 1..Len(db_structure) : db_structure[j] = t

\* C19: a table that a foreign key references is handled before the table
\* that holds the key: it is defined and created first, a CREATE TABLE is
\* sent only when every table it references exists, and the rows of station
\* are loaded before the rows of evse.
C19_ReferencedFirst ==
    /\ \A t \in Range(db_structure) : \A r \in Referenced(t) : DefPos(r) < DefPos(t)
    /\ pc = "ct_create" => Referenced(db_structure[ti]) \subseteq tables
    /\ \A t \in tables : Referenced(t) \subseteq tables
    /\ \A a \in IssuedFor("CREATE TABLE", "evse", "") :
          \A b \in IssuedFor("CREATE TABLE", "station", "") : b < a
    /\ (pc \in LoadPcs /\ table_name = "evse") => returned["station"].done
    /\ returned["evse"].done => returned["station"].done
    /\ (run = 1 /\ data.evse # <<>>) => returned["station"].done

\* C19 witness: a first invocation created both tables and loaded both
C19_Witness ==
    /\ run = 1
    /\ pc = "done"
    /\ IssuedFor("CREATE TABLE", "station", "") # {}
    /\ IssuedFor("CREATE TABLE", "evse", "") # {}
    /\ data.station # <<>>
    /\ data.evse # <<>>

\* how the destination reads the statement: the SET clause runs from the
\* fourth piece to the WHERE keyword or the final semicolon
UpdStmt == sql_commands[1]
SetEnd ==
    CHOOSE p \in 4..Len(UpdStmt) :
       /\ UpdStmt[p] \in {Kw("WHERE"), Kw(";")}
       /\ \A q \in 4..(p - 1) : UpdStmt[q] \notin {Kw("WHERE"), Kw(";")}
SetColumns == IdsOf(SubSeq(UpdStmt, 4, SetEnd - 1))
HasWhere == UpdStmt[SetEnd] = Kw("WHERE")
WhereClause == SubSeq(UpdStmt, SetEnd + 1, Len(UpdStmt) - 1)
WhereColumns == IdsOf(WhereClause)
\* the columns the call was asked to add
AskedColumns ==
    (IF upd_args.add_created_dt THEN {"created_dt"} ELSE {})
    \cup (IF upd_args.add_updated_dt THEN {"updated_dt"} ELSE {})
    \cup (IF upd_args.add_delivered THEN {"delivered"} ELSE {})
\* the key list configured for the table under the lookup the call selects
ConfiguredKeys ==
    IF upd_args.delivered_status THEN delivered_update_key_columns[table_name]
    ELSE IF table_name \in StagingHistoricalAudit THEN key_columns[table_name]
    ELSE update_key_columns[table_name]

\* C20: the SET clause of the statement generate_sql_row_update returns
\* names, once each, exactly the columns of the row flagged in update_dict
\* and the timestamp and delivered columns the call was asked to add; the
\* WHERE clause is the conjunction, in order, of the key columns configured
\* for the table under the selected lookup, each compared with the row's
\* value; with an empty key list the statement has no WHERE clause.
C20_UpdateSetAndWhere ==
    pc = "upd_done" =>
       /\ Range(SetColumns) = upd_args.update_dict_at_call \cup AskedColumns
       /\ Len(SetColumns) = Cardinality(Range(SetColumns))
       /\ WhereColumns = ConfiguredKeys
       /\ HasWhere <=> ConfiguredKeys # <<>>
       /\ ~HasWhere => UpdStmt[Len(UpdStmt) - 1].kind = "lit" \/ SetColumns = <<>>
       /\ HasWhere =>
             /\ Cardinality({ p \in 1..Len(WhereClause) : WhereClause[p] = Kw("AND") })
                   = Len(ConfiguredKeys) - 1
             /\ LitsOf(WhereClause) =
                   [j \in 1..Len(ConfiguredKeys) |->
                       where_literal(Get(dataframe[1], ConfiguredKeys[j]))]
       /\ upd_args.update_dict = upd_args.update_dict_at_call \cup AskedColumns

\* C20 witness: a delivered-status update of a downtime row with one flagged
\* column and the timestamp asked for: two SET columns, five key columns
C20_Witness ==
    /\ pc = "upd_done"
    /\ table_name = "downtime"
    /\ upd_args.delivered_status
    /\ upd_args.update_dict_at_call = {"status"}
    /\ SetColumns = <<"status", "updated_dt">>
    /\ Len(WhereColumns) = 5

\* the value literals of the statement a legacy serializer returned
UpdLiterals == LitsOf(UpdStmt)
\* the column list of an INSERT: the names between the table and VALUES
InsertColumns == IdsOf(SubSeq(UpdStmt, 3, Len(UpdStmt)))

\* C21 as stated: every statement of the legacy serializers is executable:
\* no value literal has a single quote inside its delimiters, no piece is
\* an unresolved placeholder, and the SET clause or column list names at
\* least one column.
C21_LegacyStatementsExecutable ==
    pc \in {"upd_done", "ins_done"} =>
       /\ \A j \in 1..Len(UpdLiterals) :
             UpdLiterals[j] = NULLkw \/ ~HasChar(Interior(UpdLiterals[j]), Quote)
       /\ \A p \in 1..Len(UpdStmt) : UpdStmt[p].kind \in {"kw", "id", "lit"}
       /\ pc = "upd_done" => SetColumns # <<>>
       /\ pc = "ins_done" => InsertColumns # <<>>

\* C22 as stated: the connections of the legacy loader are closed on every
\* exit path: none is open when the loader has returned or raised, and the
\* connection of the batch is closed when the loader switches to per-row
\* execution.
C22_LegacyConnectionsClosed ==
    pc \in {"lg_fb_open", "lg_return", "aborted"} => conns = <<>>

\* the positions of the rows the current call put in the destination
InsertedIx == IF hist.batch_ok THEN 1..Len(dataframe) ELSE hist.inserted_ix
\* the rows that arrived in the table during the current call, in order
ArrivedRows ==
    SubSeq(data[table_name], Len(hist.data_at_call[table_name]) + 1, Len(data[table_name]))
\* the positions of a set, in increasing order
RECURSIVE Sorted(_)
Sorted(S) ==
    IF S = {} THEN <<>>
    ELSE LET m == CHOOSE x \in S : \A y \in S : x <= y
         IN  <<m>> \o Sorted(S \ {m})

\* C23: when df_insert_to_database returns, every input row is either one
\* of the rows that arrived in the destination table or one of the rows of
\* the failure set, never both and never neither; the failure set holds
\* exactly the input rows the destination rejected and nothing else.
C23_RowsPartitioned ==
    pc = "ld_return" =>
       /\ InsertedIx \cap Range(hist.failed_ix) = {}
       /\ InsertedIx \cup Range(hist.failed_ix) = 1..Len(dataframe)
       /\ Range(hist.failed_ix) = Rejected
       /\ Len(failures) = Cardinality(Rejected)
       /\ failures = [k \in 1..Len(hist.failed_ix) |-> dataframe[hist.failed_ix[k]]]
       /\ ArrivedRows = [k \in 1..Cardinality(InsertedIx) |->
                            StmtRow(sql_commands[Sorted(InsertedIx)[k]])]
       /\ Len(ArrivedRows) + Len(failures) = Len(dataframe)

\* C23 witness: a load of two rows returned with one row in the table and
\* the other in the failure set
C23_Witness ==
    /\ pc = "ld_return"
    /\ Len(dataframe) = 2
    /\ Len(failures) = 1
    /\ Len(ArrivedRows) = 1
    /\ hist.failed_ix = <<2>>

\* C24 as stated: whenever create_database has returned normally, in a first
\* invocation or after invocations that were aborted, the target database
\* exists and the geospatial extension exists in it.
C24_DatabaseHasExtension ==
    Pos \in RunPcs \ (ValidatePcs \cup CdbPcs) => (database \in pg_database /\ extension)

\* C25 as stated: in an invocation that follows another one, when the API
\* fetch has failed (the key validation or the request raised) or has returned
\* no records, the destination tables still hold what the previous invocation
\* left in them.
C25_FailedFetchKeepsContents ==
    (/\ run > 1
     /\ \/ pc = "aborted" /\ raised_at \in ApiValidatePcs \cup {"api"}
        \/ pc \in LoadPcs \cup {"done"} /\ station_df = <<>> /\ evse_df = <<>>)
    => data = prev.data

\* C26 as stated: whenever create_read_only_users has returned, the password
\* recorded in db_configs for every non-admin user is the password the role
\* has at the destination, also when the role was created by an earlier
\* invocation under another administrative password.
C26_RecordedPasswordIsRolePassword ==
    Pos \in AfterRuPcs => \A u \in Range(users) : user_passwords[u] = roles[u]

\* C27 as stated: when _validate_db_user_passwords ends with an exception and
\* a stored administrative credential exists that the server rejects, the user
\* has been prompted once and the exception comes from the test of the
\* password that was typed in, not from the test of the stored one.
C27_RejectedStoredCredentialPrompts ==
    (/\ pc = "aborted"
     /\ raised_at \in ValidatePcs
     /\ keyring \notin {"none", postgres_password})
    => (prompts = 1 /\ raised_at = "test_input")

\* a user whose role the previous invocation created, or found, and left
\* without all its privileges when it aborted inside create_read_only_users
LeftIncomplete(u) == run > 1 /\ u \in prev.incomplete

\* C28: when the previous invocation aborted inside create_read_only_users
\* with a role in place and not all of its privileges granted, an invocation
\* that gets past create_read_only_users has given that user the full
\* privilege set, and has done so without creating the role again.
C28_AbortedGrantsCompleted ==
    \A u \in Range(users) :
        (LeftIncomplete(u) /\ Pos \in AfterRuPcs) =>
            /\ PrivilegesOf(u) \subseteq grants
            /\ IssuedFor("CREATE USER", "", u) = {}

\* C28 witness: the second invocation completed after the first one aborted
\* between the creation of a role and the last of its grants
C28_Witness ==
    /\ pc = "done"
    /\ \E u \in Range(users) :
          /\ LeftIncomplete(u)
          /\ PrivilegesOf(u) \subseteq grants

\* C29 as stated: when one call of create_read_only_users has returned, the
\* statements GRANT CONNECT, GRANT USAGE and GRANT SELECT per table have each
\* been executed exactly once for every configured non-admin user, and the
\* role has been created at most once.
C29_OncePerUser ==
    Pos \in AfterRuPcs =>
        \A u \in Range(users) :
            /\ Cardinality(IssuedFor("GRANT CONNECT", "database", u)) = 1
            /\ Cardinality(IssuedFor("GRANT USAGE", "public", u)) = 1
            /\ \A t \in Range(read_only_tables) : Cardinality(IssuedFor("GRANT SELECT", t, u)) = 1
            /\ Cardinality(IssuedFor("CREATE USER", "", u)) <= 1

\* the position in the feed, and so in station_df, of the record that evse
\* row k was extracted from
RECURSIVE RecordOf(_, _)
RecordOf(json_dict, k) ==
    IF k <= Head(json_dict).posts THEN 1
    ELSE 1 + RecordOf(Tail(json_dict), k - Head(json_dict).posts)

\* the id the destination stores for a row of a dataframe
StoredId(t, row) == Stored(StmtVal(generate_sql_row_insert(t, cols_of(t), row), "id"))

====
